---- MODULE Spec2Model ----
(***************************************************************************)
(* Model of mcrouter/proxy.cpp: the per-worker proxy engine (admission,    *)
(* request processing, reply latch, refcounting) and the router's          *)
(* configuration swap.                                                     *)
(*                                                                         *)
(* The specifications share the state and the operators:                   *)
(*   Spec        the event loop of one configured worker serving requests  *)
(*   LiveSpec    Spec with the in-flight limit on and fair scheduling      *)
(*   LifeSpec    the whole life of a request: routing errors, async log    *)
(*               writes and the async writer's callbacks                   *)
(*   ReplySpec   the reply latch of one request under every order of calls *)
(*   ConfigSpec  the router with NumProxies workers: router_configure on   *)
(*               the configuration thread, a getConfig reader thread and   *)
(*               requests routed on the workers' loops                     *)
(*   QueueSpec   a worker with the in-flight limit at its maximum serving   *)
(*               MaxQueueReq requests                                      *)
(*   FileSpec    the file-driven router_configure(router), time passing    *)
(*   StatsSpec   a rate-limited worker serving requests while the router   *)
(*               is reconfigured with texts of different sizes             *)
(*   StartSpec   the workers' writer threads started and stopped           *)
(*   PolicySpec  a shadowing policy built from JSON and updated through    *)
(*               runtime variables                                         *)
(*   LegacySpec  a worker serving requests of every op, with and without   *)
(*               the internal key prefix                                   *)
(***************************************************************************)
EXTENDS Integers, Sequences, FiniteSets, TLC

(* ---- bounds of the model ---- *)
MaxReq == 3
MaxQueueReq == 4
MaxCfgReq == 1
MaxLifeReq == 2
MaxInflightOpt == 2
MaxDelay == 2
MaxConfigures == 2
NumProxies == 2
MaxClock == 3
MaxAttempts == 3
MaxServers == 2
MaxIndex == 2
SizeBits == 3
FractionOne == 2

Requests == 1..MaxQueueReq
SpecRequests == 1..MaxReq
Proxies == 0..(NumProxies - 1)
MaxSnap == MaxConfigures * NumProxies + NumProxies
Snapshots == 1..MaxSnap
Null == 0

(* mc_op_t values the code distinguishes *)
Ops == {"get", "set", "stats", "version", "get_service_info"}
BypassOps == {"stats", "version", "get_service_info"}

(* a parsed request as handed over by the front-end: op and whether the key *)
(* starts with kInternalGetPrefix                                           *)
(* preq->orig_req->key: the r-th request of a run carries the r-th key *)
orig_req_key(r) == "k" \o ToString(r)

(* kInternalGetPrefix, "__mcrouter__.": a key is a sequence of its parts *)
kInternalGetPrefix == <<"__mcrouter__", ".">>

(* the message the client sends as the r-th request *)
McMsg(kind, r) ==
  [op |-> kind.op,
   key |-> IF kind.prefixed THEN kInternalGetPrefix \o <<orig_req_key(r)>>
           ELSE <<orig_req_key(r)>>]

(* !strncmp(key.str, prefix.c_str(), prefix.size()) *)
strncmp_equal(key, prefix) ==
  /\ Len(key) >= Len(prefix)
  /\ SubSeq(key, 1, Len(prefix)) = prefix

(* shift_nstring_inplace(&key, n): the key without its first n parts *)
shift_nstring_inplace(key, n) == SubSeq(key, n + 1, Len(key))

ReqKinds ==
  { [op |-> "get", prefixed |-> FALSE], [op |-> "get", prefixed |-> TRUE],
    [op |-> "set", prefixed |-> FALSE], [op |-> "stats", prefixed |-> FALSE],
    [op |-> "version", prefixed |-> FALSE] }

VARIABLES
  sync,                  \* opts.sync
  maxInflight,           \* opts.proxy_max_inflight_requests
  numRequestsProcessing, \* proxy_t::numRequestsProcessing_, per worker
  waitingRequests,       \* proxy_t::waitingRequests_, per worker
  stats,                 \* proxy_t::stats, per worker
  preq,                  \* the proxy_request_t objects
  task,                  \* the fiber task of each request
  calls,                 \* per request: callbacks invoked, reply slot writes
  order,                 \* processRequest / queue-append order (history)
  aborted,               \* an FBI_ASSERT fired or a null read trapped: the process is gone
  nullReadTraps,         \* what this build does on reading through a null reply
  nullReadResult,        \* the result such a read yields when it does not trap
  config_,               \* proxy_t::config_, per worker
  configLock,            \* proxy_t::configLock_, per worker
  useCount,              \* shared_ptr use count of each snapshot
  retired,               \* snapshot destroyed (use count reached zero)
  oldConfigQueue,        \* old_config entries on each worker's request_queue
  defaultRouteEmpty,     \* proxy->default_route.empty(), per worker
  cfg,                   \* the thread running router_configure
  reader,                \* a thread calling getConfig (foreachPossibleClient)
  destinationsMarked,    \* per worker: the snapshot whose destinations the
                         \* destination map marks as used (Null: all unused)
  now,                   \* time(nullptr)
  router,                \* mcrouter_t: last_config_attempt, config_failures
  input,                 \* the configuration text: how many servers its pools hold
  asynclogDisable,       \* opts.asynclog_disable
  writerThreads,         \* per worker: the writer threads startAwriterThreads spawned
  policy,                \* a proxy_pool_shadowing_policy_t: its data_
  updater                \* the runtime-variables callback of the policy

reqVars == <<numRequestsProcessing, waitingRequests, stats, preq, task, calls,
             order, aborted, useCount, retired>>
optVars == <<sync, maxInflight, defaultRouteEmpty, nullReadTraps,
             nullReadResult>>
cfgVars == <<config_, configLock, oldConfigQueue, cfg, reader,
             destinationsMarked>>
rtrVars == <<now, router, input, asynclogDisable, writerThreads>>
polVars == <<policy, updater>>
vars == <<sync, maxInflight, numRequestsProcessing, waitingRequests, stats,
          preq, task, calls, order, aborted, config_,
          configLock, useCount, retired, oldConfigQueue, defaultRouteEmpty,
          cfg, reader, nullReadTraps, nullReadResult, destinationsMarked, now, router, input,
          asynclogDisable, writerThreads, policy, updater>>


(* ---- values ---- *)
NoReply == [op |-> "none", result |-> "none", value |-> ""]
NoReq ==
  [state |-> "none", proxy |-> 0, op |-> "get", legacy |-> FALSE,
   key |-> <<>>, req |-> [op |-> "none", key |-> <<>>],
   refcount |-> 0, reply_state |-> "NO_REPLY", delay_reply |-> 0,
   processing |-> FALSE, reply |-> NoReply]
(* a destroyed request: only what identifies it is kept *)
DeadReq(q) ==
  [NoReq EXCEPT !.state = "dead", !.proxy = q.proxy, !.op = q.op,
                !.legacy = q.legacy, !.req = q.req]
NoTask == [phase |-> "none", ctx |-> Null, submitter |-> FALSE, entries |-> 0]
NoCalls ==
  [enqueueReply |-> 0, reqComplete |-> 0, replyWrites |-> 0,
   reply |-> NoReply, caught |-> FALSE,
   teardown |-> [reply_state |-> "none", events |-> <<>>]]
ZeroStats ==
  [proxy_reqs_waiting |-> 0, proxy_reqs_processing |-> 0,
   proxy_request_num_outstanding |-> 0,
   num_servers |-> 0, config_last_success |-> 0,
   cmd_stats |-> 0, cmd_stats_count |-> 0, cmd_get |-> 0, cmd_get_count |-> 0,
   cmd_set |-> 0, cmd_set_count |-> 0, cmd_other |-> 0, cmd_other_count |-> 0,
   request_sent |-> 0, request_sent_count |-> 0,
   request_replied |-> 0, request_replied_count |-> 0,
   request_error |-> 0, request_error_count |-> 0,
   request_success |-> 0, request_success_count |-> 0]

(* stat_set_uint64 *)
stat_set_uint64(s, w, name, v) ==
  [s EXCEPT !.stats[w][name] = v]

(* the part of the state the request code works on, as one record *)
Cur ==
  [numRequestsProcessing |-> numRequestsProcessing,
   waitingRequests |-> waitingRequests, stats |-> stats, preq |-> preq,
   task |-> task, calls |-> calls, order |-> order,
   aborted |-> aborted, useCount |-> useCount, retired |-> retired]

Commit(s) ==
  /\ numRequestsProcessing' = s.numRequestsProcessing
  /\ waitingRequests' = s.waitingRequests
  /\ stats' = s.stats
  /\ preq' = s.preq
  /\ task' = s.task
  /\ calls' = s.calls
  /\ order' = s.order
  /\ aborted' = s.aborted
  /\ useCount' = s.useCount
  /\ retired' = s.retired

stat_incr(s, w, name, by) ==
  [s EXCEPT !.stats[w][name] = @ + by]

stat_decr(s, w, name, by) ==
  [s EXCEPT !.stats[w][name] = @ - by]

(* a stat and its _count twin, incremented by one together *)
stat_incr_pair(s, w, name, countName) ==
  stat_incr(stat_incr(s, w, name, 1), w, countName, 1)

(* mc_res_is_err *)
mc_res_is_err(result) == result = "local_error"

(* reply stats that take an error reply back out of request_success *)
replyStats_errorUncounted(s, w, result) ==
  LET s1 == stat_incr_pair(s, w, "request_replied", "request_replied_count")
  IN IF mc_res_is_err(result)
     THEN stat_decr(
            stat_incr_pair(s1, w, "request_error", "request_error_count"),
            w, "request_success", 1)
     ELSE stat_incr_pair(s1, w, "request_success", "request_success_count")

(* the stats continueSendReply bumps for a reply with the given result *)
replyStats(s, w, result) ==
  LET s1 == stat_incr_pair(s, w, "request_replied", "request_replied_count")
  IN IF mc_res_is_err(result)
     THEN stat_incr_pair(s1, w, "request_error", "request_error_count")
     ELSE stat_incr_pair(s1, w, "request_success", "request_success_count")

(* the switch on the op in processRequest *)
cmdStats(s, w, op) ==
  IF op = "stats" THEN stat_incr_pair(s, w, "cmd_stats", "cmd_stats_count")
  ELSE IF op = "get" THEN stat_incr_pair(s, w, "cmd_get", "cmd_get_count")
  ELSE IF op = "set" THEN stat_incr_pair(s, w, "cmd_set", "cmd_set_count")
  ELSE stat_incr_pair(s, w, "cmd_other", "cmd_other_count")

(* ---- shared_ptr<ProxyConfigIf> ---- *)
(* copying a shared_ptr *)
SharedPtrCopy(s, c) ==
  IF c = Null THEN s ELSE [s EXCEPT !.useCount[c] = @ + 1]

(* dropping a shared_ptr: the snapshot is destroyed with its last owner *)
SharedPtrRelease(s, c) ==
  IF c = Null THEN s
  ELSE IF s.useCount[c] = 1
       THEN [s EXCEPT !.useCount[c] = 0, !.retired[c] = TRUE]
       ELSE [s EXCEPT !.useCount[c] = @ - 1]

(* a read lock that does not wait for the writer *)
ReadLockFree_noWait(w) == TRUE

(* SFRReadLock can be taken while no writer holds configLock_ *)
ReadLockFree(w) == ~configLock[w].writer

(* SFRWriteLock can be taken while nobody holds configLock_ *)
WriteLockFree(w) == ~configLock[w].writer /\ configLock[w].readers = 0

(* getConfig handing out the pointer without a reference of its own *)
getConfig_noCopy(s, w) ==
  [ptr |-> config_[w], s |-> s]

(* proxy_t::getConfig, the read lock held: the pointer read and the state   *)
(* with the returned copy accounted for                                     *)
getConfig(s, w) ==
  [ptr |-> config_[w], s |-> SharedPtrCopy(s, config_[w])]

(* ---- proxy_request_t ---- *)
proxy_request_incref(s, r) ==
  IF s.preq[r].refcount > 0
  THEN [s EXCEPT !.preq[r].refcount = @ + 1]
  ELSE [s EXCEPT !.aborted = TRUE]

(* continueSendReply calling enqueueReply_ in sync mode *)
continueSendReply_inSync(s, r) ==
  LET s1 == [s EXCEPT !.preq[r].reply_state = "REPLIED"]
      s2 == IF sync
            THEN [s1 EXCEPT !.calls[r].enqueueReply = @ + 1]
            ELSE s1
      s3 == stat_incr_pair(s2, s.preq[r].proxy,
                           "request_replied", "request_replied_count")
  IN IF s.preq[r].reply = NoReply
     THEN IF nullReadTraps THEN [s3 EXCEPT !.aborted = TRUE]
          ELSE replyStats(s2, s.preq[r].proxy, nullReadResult)
     ELSE replyStats(s2, s.preq[r].proxy, s.preq[r].reply.result)

(* reply->result of a null reply is a read through a null pointer: the     *)
(* build either traps there or reads on                                    *)
continueSendReply(s, r) ==
  LET s1 == [s EXCEPT !.preq[r].reply_state = "REPLIED"]
      s2 == IF ~sync
            THEN [s1 EXCEPT !.calls[r].enqueueReply = @ + 1]
            ELSE s1
      s3 == stat_incr_pair(s2, s.preq[r].proxy,
                           "request_replied", "request_replied_count")
  IN IF s.preq[r].reply = NoReply
     THEN IF nullReadTraps THEN [s3 EXCEPT !.aborted = TRUE]
          ELSE replyStats(s2, s.preq[r].proxy, nullReadResult)
     ELSE replyStats(s2, s.preq[r].proxy, s.preq[r].reply.result)

(* sendReply that leaves the reply's op as the route handles set it *)
sendReply_noUndo(s, r, newReply) ==
  IF s.preq[r].reply # NoReply
  THEN [s EXCEPT !.aborted = TRUE]
  ELSE LET s1 == [s EXCEPT !.preq[r].reply = newReply,
                           !.calls[r].replyWrites = @ + 1,
                           !.calls[r].reply = newReply]
       IN IF s1.preq[r].reply_state # "NO_REPLY" THEN s1
          ELSE IF s1.preq[r].delay_reply = 0 THEN continueSendReply(s1, r)
          ELSE [s1 EXCEPT !.preq[r].reply_state = "REPLY_DELAYED"]

(* sendReply without the FBI_ASSERT on the reply slot *)
sendReply_noAssert(s, r, newReply) ==
  LET fixed == [newReply EXCEPT
                  !.op = IF s.preq[r].legacy THEN "get" ELSE s.preq[r].op]
      s1 == [s EXCEPT !.preq[r].reply = fixed,
                      !.calls[r].replyWrites = @ + 1,
                      !.calls[r].reply = fixed]
  IN IF s1.preq[r].reply_state # "NO_REPLY" THEN s1
     ELSE IF s1.preq[r].delay_reply = 0 THEN continueSendReply(s1, r)
     ELSE [s1 EXCEPT !.preq[r].reply_state = "REPLY_DELAYED"]

sendReply(s, r, newReply) ==
  IF s.preq[r].reply # NoReply
  THEN [s EXCEPT !.aborted = TRUE]
  ELSE LET fixed == [newReply EXCEPT
                       !.op = IF s.preq[r].legacy THEN "get" ELSE s.preq[r].op]
           s1 == [s EXCEPT !.preq[r].reply = fixed,
                           !.calls[r].replyWrites = @ + 1,
                           !.calls[r].reply = fixed]
       IN IF s1.preq[r].reply_state # "NO_REPLY" THEN s1
          ELSE IF s1.preq[r].delay_reply = 0 THEN continueSendReply(s1, r)
          ELSE [s1 EXCEPT !.preq[r].reply_state = "REPLY_DELAYED"]

(* stats_reply(...).releasedMsg(mc_op_stats) *)
stats_reply == [op |-> "stats", result |-> "ok", value |-> ""]

(* ServiceInfo::handleRequest: answers the request *)
serviceInfoHandleRequest(s, r) ==
  sendReply(s, r, [op |-> "get_service_info", result |-> "ok", value |-> ""])

(* routeHandlesProcessRequest that passes preq to the task as it is *)
routeHandlesProcessRequest_noIncref(s, r) ==
  LET w == s.preq[r].proxy
  IN IF s.preq[r].op = "stats" THEN sendReply(s, r, stats_reply)
     ELSE IF s.preq[r].op = "get_service_info"
     THEN LET g == getConfig(s, w)
              s1 == serviceInfoHandleRequest(g.s, r)
          IN SharedPtrRelease(s1, g.ptr)
     ELSE [s EXCEPT !.task[r].phase = "pending"]

routeHandlesProcessRequest(s, r) ==
  LET w == s.preq[r].proxy
  IN IF s.preq[r].op = "stats" THEN sendReply(s, r, stats_reply)
     ELSE IF s.preq[r].op = "get_service_info"
     THEN LET g == getConfig(s, w)
              s1 == serviceInfoHandleRequest(g.s, r)
          IN SharedPtrRelease(s1, g.ptr)
     ELSE LET s1 == proxy_request_incref(s, r)
          IN [s1 EXCEPT !.task[r].phase = "pending"]

(* processRequest that leaves numRequestsProcessing_ alone *)
processRequest_noCount(s, r) ==
  LET w == s.preq[r].proxy
      s1 == [s EXCEPT !.preq[r].processing = TRUE,
                      !.order.process = Append(@, r)]
      s2 == stat_incr(s1, w, "proxy_reqs_processing", 1)
      s3 == routeHandlesProcessRequest(cmdStats(s2, w, s.preq[r].op), r)
  IN stat_incr_pair(s3, w, "request_sent", "request_sent_count")

processRequest(s, r) ==
  LET w == s.preq[r].proxy
      s1 == [s EXCEPT !.preq[r].processing = TRUE,
                      !.numRequestsProcessing[w] = @ + 1,
                      !.order.process = Append(@, r)]
      s2 == stat_incr(s1, w, "proxy_reqs_processing", 1)
      s3 == routeHandlesProcessRequest(cmdStats(s2, w, s.preq[r].op), r)
  IN stat_incr_pair(s3, w, "request_sent", "request_sent_count")

(* rateLimited admitting at numRequestsProcessing_ == max *)
rateLimited_offByOne(s, r) ==
  LET w == s.preq[r].proxy
  IN IF maxInflight = 0 THEN FALSE
     ELSE IF s.preq[r].op \in {"stats", "version", "get_service_info"}
          THEN FALSE
     ELSE IF s.waitingRequests[w] = <<>>
             /\ s.numRequestsProcessing[w] <= maxInflight
          THEN FALSE
     ELSE TRUE

(* rateLimited without the bypass of operational requests *)
rateLimited_noBypass(s, r) ==
  LET w == s.preq[r].proxy
  IN IF maxInflight = 0 THEN FALSE
     ELSE IF s.waitingRequests[w] = <<>>
             /\ s.numRequestsProcessing[w] < maxInflight
          THEN FALSE
     ELSE TRUE

rateLimited(s, r) ==
  LET w == s.preq[r].proxy
  IN IF maxInflight = 0 THEN FALSE
     ELSE IF s.preq[r].op \in {"stats", "version", "get_service_info"}
          THEN FALSE
     ELSE IF s.waitingRequests[w] = <<>>
             /\ s.numRequestsProcessing[w] < maxInflight
          THEN FALSE
     ELSE TRUE

(* TAILQ_INSERT_HEAD in place of TAILQ_INSERT_TAIL *)
TAILQ_INSERT_HEAD(q, r) == <<r>> \o q

(* TAILQ_INSERT_TAIL(&waitingRequests_, preq, entry_) *)
TAILQ_INSERT_TAIL(q, r) == Append(q, r)

(* dispatchRequest queueing the request without a reference for the queue *)
dispatchRequest_noIncref(s, r) ==
  LET w == s.preq[r].proxy
  IN IF rateLimited(s, r)
     THEN LET s2 == [s EXCEPT !.waitingRequests[w] = TAILQ_INSERT_TAIL(@, r),
                              !.order.queue = Append(@, r)]
          IN stat_incr(s2, w, "proxy_reqs_waiting", 1)
     ELSE processRequest(s, r)

dispatchRequest(s, r) ==
  LET w == s.preq[r].proxy
  IN IF rateLimited(s, r)
     THEN LET s1 == proxy_request_incref(s, r)
              s2 == [s1 EXCEPT !.waitingRequests[w] = TAILQ_INSERT_TAIL(@, r),
                               !.order.queue = Append(@, r)]
          IN stat_incr(s2, w, "proxy_reqs_waiting", 1)
     ELSE processRequest(s, r)

RECURSIVE pump(_, _)
RECURSIVE proxy_request_decref(_, _)

(* the last element taken in place of the first *)
TAILQ_LAST(q) == q[Len(q)]

(* TAILQ_FIRST(&waitingRequests_) *)
TAILQ_FIRST(q) == Head(q)

(* TAILQ_REMOVE(&waitingRequests_, preq, entry_) *)
TAILQ_REMOVE(q, r) == SelectSeq(q, LAMBDA x : x # r)

(* an iteration that leaves proxy_reqs_waiting_stat alone *)
pumpOne_noStat(s, w) ==
  LET r == TAILQ_FIRST(s.waitingRequests[w])
      s1 == [s EXCEPT !.waitingRequests[w] = TAILQ_REMOVE(@, r)]
      s3 == processRequest(s1, r)
  IN proxy_request_decref(s3, r)

(* one iteration of the loop of proxy_t::pump *)
pumpOne(s, w) ==
  LET r == TAILQ_FIRST(s.waitingRequests[w])
      s1 == [s EXCEPT !.waitingRequests[w] = TAILQ_REMOVE(@, r)]
      s2 == stat_decr(s1, w, "proxy_reqs_waiting", 1)
      s3 == processRequest(s2, r)
  IN proxy_request_decref(s3, r)

(* pump whose loop stops one request short of the limit *)
pump_stopsShort(s, w) ==
  IF s.numRequestsProcessing[w] + 1 < maxInflight
     /\ s.waitingRequests[w] # <<>>
  THEN pump(pumpOne(s, w), w)
  ELSE s

(* proxy_t::pump *)
pump(s, w) ==
  IF s.numRequestsProcessing[w] < maxInflight /\ s.waitingRequests[w] # <<>>
  THEN pump(pumpOne(s, w), w)
  ELSE s

(* a destructor that does not call pump() *)
destructor_noPump(s, r) ==
  LET w == s.preq[r].proxy
  IN IF s.preq[r].processing
     THEN LET s1 == [s EXCEPT !.numRequestsProcessing[w] = @ - 1]
          IN stat_decr(s1, w, "proxy_reqs_processing", 1)
     ELSE s

(* proxy_request_t::~proxy_request_t *)
destructor(s, r) ==
  LET w == s.preq[r].proxy
  IN IF s.preq[r].processing
     THEN LET s1 == [s EXCEPT !.numRequestsProcessing[w] = @ - 1,
                              !.calls[r].teardown.events =
                                 Append(@, "numRequestsProcessing")]
              s2 == stat_decr(s1, w, "proxy_reqs_processing", 1)
          IN pump([s2 EXCEPT !.calls[r].teardown.events = Append(@, "pump")],
                  w)
     ELSE s

(* proxy_request_decref that calls reqComplete_ after the delete *)
proxy_request_decref_completeLate(s, r) ==
  IF s.preq[r].refcount <= 0 THEN [s EXCEPT !.aborted = TRUE]
  ELSE
    LET last == s.preq[r].refcount = 1
        s0 == IF last
              THEN [s EXCEPT !.calls[r].teardown.reply_state =
                                s.preq[r].reply_state]
              ELSE s
        s1 == IF last /\ sync /\ s.preq[r].reply_state = "REPLIED"
              THEN [s0 EXCEPT !.calls[r].enqueueReply = @ + 1,
                              !.calls[r].teardown.events =
                                 Append(@, "enqueueReply")]
              ELSE s0
        s3 == [s1 EXCEPT !.preq[r].refcount = @ - 1]
    IN IF s3.preq[r].refcount > 0 THEN s3
       ELSE LET w == s3.preq[r].proxy
                s4 == destructor(s3, r)
                s5 == [s4 EXCEPT !.preq[r] = DeadReq(@), !.task[r] = NoTask,
                                 !.calls[r].teardown.events =
                                    Append(@, "delete")]
                s6 == [s5 EXCEPT !.calls[r].reqComplete = @ + 1,
                                 !.calls[r].teardown.events =
                                    Append(@, "reqComplete")]
            IN stat_decr(s6, w, "proxy_request_num_outstanding", 1)

proxy_request_decref(s, r) ==
  IF s.preq[r].refcount <= 0 THEN [s EXCEPT !.aborted = TRUE]
  ELSE
    LET last == s.preq[r].refcount = 1
        s0 == IF last
              THEN [s EXCEPT !.calls[r].teardown.reply_state =
                                s.preq[r].reply_state]
              ELSE s
        s1 == IF last /\ sync /\ s.preq[r].reply_state = "REPLIED"
              THEN [s0 EXCEPT !.calls[r].enqueueReply = @ + 1,
                              !.calls[r].teardown.events =
                                 Append(@, "enqueueReply")]
              ELSE s0
        s2 == IF last
              THEN [s1 EXCEPT !.calls[r].reqComplete = @ + 1,
                              !.calls[r].teardown.events =
                                 Append(@, "reqComplete")]
              ELSE s1
        s3 == [s2 EXCEPT !.preq[r].refcount = @ - 1]
    IN IF s3.preq[r].refcount > 0 THEN s3
       ELSE LET w == s3.preq[r].proxy
                s4 == destructor(s3, r)
                s5 == [s4 EXCEPT !.preq[r] = DeadReq(@), !.task[r] = NoTask,
                                 !.calls[r].teardown.events =
                                    Append(@, "delete")]
            IN stat_decr(s5, w, "proxy_request_num_outstanding", 1)

(* proxy_request_t::proxy_request_t on a valid request *)
proxy_request_t(s, r, w, kind) ==
  LET req == McMsg(kind, r)
      legacy == /\ req.op = "get"
                /\ strncmp_equal(req.key, kInternalGetPrefix)
      s1 == [s EXCEPT
               !.preq[r] = [NoReq EXCEPT
                              !.state = "live", !.proxy = w,
                              !.op = IF legacy THEN "get_service_info"
                                     ELSE req.op,
                              !.key = IF legacy
                                      THEN shift_nstring_inplace(
                                             req.key, Len(kInternalGetPrefix))
                                      ELSE req.key,
                              !.req = req,
                              !.legacy = legacy, !.refcount = 1],
               !.task[r] = [NoTask EXCEPT !.submitter = TRUE,
                                          !.phase = "new"]]
  IN stat_incr(s1, w, "proxy_request_num_outstanding", 1)

(* a writelog entry of request r is created for an async log write: it     *)
(* keeps the request alive through e->preq and delays its reply            *)
RECURSIVE writelog_entry_new(_, _, _)
writelog_entry_new(s, r, n) ==
  IF n = 0 THEN s
  ELSE LET s1 == proxy_request_incref(s, r)
       IN writelog_entry_new(
            [s1 EXCEPT !.preq[r].delay_reply = @ + 1,
                       !.task[r].entries = @ + 1], r, n - 1)

(* writelog_entry_free(e): the entry goes, and its reference with it *)
writelog_entry_free(s, r) ==
  proxy_request_decref([s EXCEPT !.task[r].entries = @ - 1], r)

(* proxy_on_continue_reply_error that releases every delayed reply *)
proxy_on_continue_reply_error_anyDelay(s, r) ==
  LET s1 == IF s.preq[r].reply_state = "REPLY_DELAYED"
            THEN continueSendReply(s, r)
            ELSE s
  IN writelog_entry_free(s1, r)

(* proxy_on_continue_reply_error(proxy, e) with e->preq = r *)
proxy_on_continue_reply_error(s, r) ==
  LET s1 == IF s.preq[r].reply_state = "REPLY_DELAYED"
               /\ s.preq[r].delay_reply = 1
            THEN continueSendReply(s, r)
            ELSE s
  IN writelog_entry_free(s1, r)


(* the stats proxy_config_swap writes, of every worker *)
ConfigStats(st) ==
  [w \in Proxies |-> [num_servers |-> st[w].num_servers,
                      config_last_success |-> st[w].config_last_success]]

(* ---- proxy_pool_shadowing_policy_t ---- *)

(* size_t of SizeBits bits: what an int64 becomes when stored in one *)
SizeModulus == 2 ^ SizeBits
asSizeT(v) == v % SizeModulus

(* fractions are counted in units of 1/FractionOne *)
IntInputs == (0 - 1)..MaxIndex
FractionInputs == {0 - 1, 0, FractionOne, FractionOne + 1}

(* a JSON or runtime-variable value: absent, of the wrong shape, or an      *)
(* array of two numbers                                                     *)
Pair(a, b) == [kind |-> "pair", a |-> a, b |-> b]
Shaped(kind) == [kind |-> kind, a |-> 0, b |-> 0]
JsonShapes == {"absent", "notArray"}
RtShapes == {"absent", "notArray", "wrongSize", "wrongType"}
IndexPairs == {Pair(a, b) : a \in IntInputs, b \in IntInputs}
FractionPairs == {Pair(a, b) : a \in FractionInputs, b \in FractionInputs}

(* Data::Data() *)
DefaultData ==
  [start_index |-> 0, end_index |-> 0,
   start_key_fraction |-> 0, end_key_fraction |-> 0,
   index_range_rv |-> "", key_fraction_range_rv |-> ""]

(* Data::Data(const folly::dynamic&): the fields, or "throws" when a        *)
(* checkLogic fails or convertTo<vector<size_t>> meets a negative number    *)
DataFromJson(json) ==
  LET ir == json.index_range
      kf == json.key_fraction_range
      irOk == \/ ir.kind = "absent"
              \/ /\ ir.kind = "pair"
                 /\ ir.a >= 0 /\ ir.b >= 0
                 /\ ir.a <= ir.b
      kfOk == \/ kf.kind = "absent"
              \/ /\ kf.kind = "pair"
                 /\ 0 <= kf.a /\ kf.a <= kf.b /\ kf.b <= FractionOne
  IN IF irOk /\ kfOk
     THEN [ok |-> TRUE,
           data |-> [start_index |-> IF ir.kind = "pair" THEN ir.a ELSE 0,
                     end_index |-> IF ir.kind = "pair" THEN ir.b ELSE 0,
                     start_key_fraction |-> IF kf.kind = "pair" THEN kf.a ELSE 0,
                     end_key_fraction |-> IF kf.kind = "pair" THEN kf.b ELSE 0,
                     index_range_rv |-> json.index_range_rv,
                     key_fraction_range_rv |-> json.key_fraction_range_rv]]
     ELSE [ok |-> FALSE, data |-> DefaultData]

NoVars == [ir |-> Shaped("absent"), kf |-> Shaped("absent")]
UpdaterIdle ==
  [pc |-> "idle", newVars |-> NoVars, dataCopy |-> DefaultData,
   start_index_temp |-> 0, end_index_temp |-> 0,
   start_key_fraction_temp |-> 0, end_key_fraction_temp |-> 0,
   updateRange |-> FALSE, updateKeyFraction |-> FALSE,
   before |-> DefaultData]

InitPolicy ==
  /\ policy = [pc |-> "none", data_ |-> DefaultData]
  /\ updater = UpdaterIdle

(* proxy_pool_shadowing_policy_t(json, router) *)
PolicyConstruct(json) ==
  /\ policy.pc = "none"
  /\ LET d == DataFromJson(json)
     IN policy' = IF d.ok THEN [pc |-> "live", data_ |-> d.data]
                  ELSE [pc |-> "failed", data_ |-> DefaultData]
  /\ UNCHANGED <<reqVars, optVars, cfgVars, rtrVars, updater>>

(* the callback is called with new runtime variables: it copies the Data *)
UpdateBegin(newVars) ==
  /\ policy.pc = "live"
  /\ updater.pc = "idle"
  /\ updater' = [UpdaterIdle EXCEPT
                   !.pc = "index", !.newVars = newVars,
                   !.dataCopy = policy.data_, !.before = policy.data_]
  /\ UNCHANGED <<reqVars, optVars, cfgVars, rtrVars, policy>>

(* a checkLogic of the callback fails: the exception leaves it *)
UpdateThrow == UpdaterIdle

(* a callback that writes the index range into the published Data as soon  *)
(* as it is validated                                                       *)
UpdateIndex_inPlace ==
  /\ updater.pc = "index"
  /\ LET val == updater.newVars.ir
         ok == /\ updater.dataCopy.index_range_rv # ""
               /\ val.kind = "pair"
               /\ asSizeT(val.a) <= asSizeT(val.b)
     IN /\ updater' =
             IF updater.dataCopy.index_range_rv = "" \/ val.kind = "absent"
             THEN [updater EXCEPT !.pc = "fraction"]
             ELSE IF ok
             THEN [updater EXCEPT !.pc = "fraction",
                                  !.start_index_temp = asSizeT(val.a),
                                  !.end_index_temp = asSizeT(val.b),
                                  !.updateRange = TRUE]
             ELSE UpdateThrow
        /\ policy' = IF ok
                     THEN [policy EXCEPT !.data_.start_index = asSizeT(val.a),
                                         !.data_.end_index = asSizeT(val.b)]
                     ELSE policy
  /\ UNCHANGED <<reqVars, optVars, cfgVars, rtrVars>>

(* the index range of the new variables is validated and staged *)
UpdateIndex ==
  /\ updater.pc = "index"
  /\ LET val == updater.newVars.ir
     IN updater' =
          IF updater.dataCopy.index_range_rv = "" \/ val.kind = "absent"
          THEN [updater EXCEPT !.pc = "fraction"]
          ELSE IF val.kind # "pair" THEN UpdateThrow
          ELSE IF asSizeT(val.a) <= asSizeT(val.b)
          THEN [updater EXCEPT !.pc = "fraction",
                               !.start_index_temp = asSizeT(val.a),
                               !.end_index_temp = asSizeT(val.b),
                               !.updateRange = TRUE]
          ELSE UpdateThrow
  /\ UNCHANGED <<reqVars, optVars, cfgVars, rtrVars, policy>>

(* the key fraction range of the new variables is validated and staged *)
UpdateKeyFraction ==
  /\ updater.pc = "fraction"
  /\ LET val == updater.newVars.kf
     IN updater' =
          IF updater.dataCopy.key_fraction_range_rv = "" \/ val.kind = "absent"
          THEN [updater EXCEPT !.pc = "commit"]
          ELSE IF val.kind # "pair" THEN UpdateThrow
          ELSE IF /\ val.a >= 0 /\ val.a <= FractionOne
                  /\ val.b >= 0 /\ val.b <= FractionOne
                  /\ val.a <= val.b
          THEN [updater EXCEPT !.pc = "commit",
                               !.start_key_fraction_temp = val.a,
                               !.end_key_fraction_temp = val.b,
                               !.updateKeyFraction = TRUE]
          ELSE UpdateThrow
  /\ UNCHANGED <<reqVars, optVars, cfgVars, rtrVars, policy>>

(* the staged fields go into the copy and the copy is published *)
UpdatePublish ==
  /\ updater.pc = "commit"
  /\ LET c1 == IF updater.updateRange
               THEN [updater.dataCopy EXCEPT
                       !.start_index = updater.start_index_temp,
                       !.end_index = updater.end_index_temp]
               ELSE updater.dataCopy
         c2 == IF updater.updateKeyFraction
               THEN [c1 EXCEPT
                       !.start_key_fraction = updater.start_key_fraction_temp,
                       !.end_key_fraction = updater.end_key_fraction_temp]
               ELSE c1
     IN /\ policy' = [policy EXCEPT !.data_ = c2]
        /\ updater' = UpdaterIdle
  /\ UNCHANGED <<reqVars, optVars, cfgVars, rtrVars>>

(* ---- the router's threads at rest ---- *)
CfgIdle ==
  [pc |-> "idle", i |-> 0, newConfigs |-> <<>>, old |-> Null,
   result |-> -1, runs |-> 0, nextSnap |-> 1,
   before |-> [w \in Proxies |-> Null],
   built |-> <<>>,
   current |-> [w \in Proxies |-> Null],
   installed |-> [w \in Proxies |-> FALSE],
   markedBefore |-> [w \in Proxies |-> Null],
   statsBefore |-> ConfigStats([w \in Proxies |-> ZeroStats])]
ReaderIdle == [pc |-> "idle", w |-> 0, result |-> Null, after |-> FALSE]

Live(r) == preq[r].state = "live"

(* ---- the worker's loop and its environment ---- *)

(* the front-end constructs a request for worker w and posts it to the      *)
(* worker's request queue                                                   *)
NewRequest(r, w, kind) ==
  /\ ~aborted
  /\ preq[r].state = "none"
  /\ \A q \in 1..(r - 1) : preq[q].state # "none"
  /\ cfg.installed[w]
  /\ Commit(proxy_request_t(Cur, r, w, kind))
  /\ UNCHANGED <<polVars, optVars, cfgVars, rtrVars>>

(* the request queue hands requests to dispatchRequest in arrival order *)
DispatchRequest(r) ==
  /\ ~aborted
  /\ task[r].phase = "new"
  /\ \A q \in 1..(r - 1) : task[q].phase # "new"
  /\ preq[r].op = "get_service_info" => ReadLockFree(preq[r].proxy)
  /\ Commit(dispatchRequest([Cur EXCEPT !.task[r].phase = "idle"], r))
  /\ UNCHANGED <<polVars, optVars, cfgVars, rtrVars>>

(* the fiber task starts: it takes the worker's snapshot into its request   *)
(* context and calls dispatchMcMsg, which suspends                          *)
FiberStart(r) ==
  /\ ~aborted
  /\ task[r].phase = "pending"
  /\ ReadLockFree(preq[r].proxy)
  /\ LET g == getConfig(Cur, preq[r].proxy)
     IN Commit([g.s EXCEPT !.task[r].phase = "routing", !.task[r].ctx = g.ptr])
  /\ UNCHANGED <<polVars, optVars, cfgVars, rtrVars>>

(* create_reply that leaves the result of new_reply (ok) in place *)
create_reply_noResult(op, result, str) ==
  [op |-> op, result |-> "ok", value |-> str]

(* create_reply(op, result, str) *)
create_reply(op, result, str) ==
  [op |-> op, result |-> result, value |-> str]

(* e.what() of the exception the route handle throws *)
what == "upstream down"

(* the task's first function: what it leaves in the result slot when        *)
(* dispatchMcMsg returns a reply with result `outcome`, or throws           *)
taskResult(r, outcome) ==
  IF outcome = "throw"
  THEN create_reply(preq[r].op, "local_error",
                    "error routing " \o orig_req_key(r) \o ": " \o what)
  ELSE [op |-> preq[r].op, result |-> outcome, value |-> ""]

(* the fiber resumes: dispatchMcMsg returns a reply or throws, having       *)
(* posted `delays` async log writes for the request; the result slot is     *)
(* written and the request context dropped; then, on the main context, the  *)
(* task's second function (sendReply of the result) and its cleanup         *)
(* function (decref) run                                                    *)
FiberFinish(r, outcome, delays) ==
  /\ ~aborted
  /\ task[r].phase = "routing"
  /\ LET s1 == SharedPtrRelease(Cur, task[r].ctx)
         s2 == writelog_entry_new(
                 [s1 EXCEPT !.task[r].phase = "done", !.task[r].ctx = Null],
                 r, delays)
         s3 == [s2 EXCEPT !.calls[r].caught = (outcome = "throw")]
         s4 == sendReply(s3, r, taskResult(r, outcome))
     IN Commit(proxy_request_decref(s4, r))
  /\ UNCHANGED <<polVars, optVars, cfgVars, rtrVars>>

(* the submitter of the request drops its reference, any time after the     *)
(* request was dispatched                                                   *)
SubmitterDecref(r) ==
  /\ ~aborted
  /\ task[r].submitter
  /\ task[r].phase \notin {"none", "new"}
  /\ Commit(proxy_request_decref([Cur EXCEPT !.task[r].submitter = FALSE], r))
  /\ UNCHANGED <<polVars, optVars, cfgVars, rtrVars>>

(* the async writer reports a failed log write of one of r's entries *)
OnContinueReplyError(r) ==
  /\ ~aborted
  /\ task[r].entries >= 1
  /\ Commit(proxy_on_continue_reply_error(Cur, r))
  /\ UNCHANGED <<polVars, optVars, cfgVars, rtrVars>>

(* the async writer has written one of r's entries: it releases the reply   *)
(* if it is still delayed, and frees the entry                              *)
WriterContinueSendReply(r) ==
  /\ ~aborted
  /\ task[r].entries >= 1
  /\ LET s1 == IF preq[r].reply_state = "REPLY_DELAYED"
               THEN continueSendReply(Cur, r)
               ELSE Cur
     IN Commit(writelog_entry_free(s1, r))
  /\ UNCHANGED <<polVars, optVars, cfgVars, rtrVars>>

RouteOutcomes == {"ok", "local_error"}

(* what the root route handle does with a request: it returns a reply with  *)
(* one of the results above, or it throws                                   *)
FiberOutcomes == RouteOutcomes \cup {"throw"}

(* ---- Spec: one configured worker serving requests ---- *)
InitRequests ==
  /\ numRequestsProcessing = [w \in Proxies |-> 0]
  /\ waitingRequests = [w \in Proxies |-> <<>>]
  /\ stats = [w \in Proxies |-> ZeroStats]
  /\ preq = [r \in Requests |-> NoReq]
  /\ task = [r \in Requests |-> NoTask]
  /\ calls = [r \in Requests |-> NoCalls]
  /\ order = [process |-> <<>>, queue |-> <<>>]
  /\ aborted = FALSE

(* every worker holds its first snapshot *)
InitConfigured ==
  /\ defaultRouteEmpty = [w \in Proxies |-> FALSE]
  /\ config_ = [w \in Proxies |-> w + 1]
  /\ configLock = [w \in Proxies |-> [writer |-> FALSE, readers |-> 0]]
  /\ useCount = [c \in Snapshots |-> IF c <= NumProxies THEN 1 ELSE 0]
  /\ retired = [c \in Snapshots |-> FALSE]
  /\ oldConfigQueue = [w \in Proxies |-> <<>>]
  /\ cfg = [CfgIdle EXCEPT !.runs = MaxConfigures, !.nextSnap = NumProxies + 1,
                           !.current = [w \in Proxies |-> w + 1],
                           !.installed = [w \in Proxies |-> TRUE]]
  /\ reader = ReaderIdle
  /\ destinationsMarked = [w \in Proxies |-> w + 1]

(* the router at rest: the clock at its origin, no attempt made, writer     *)
(* threads not started                                                      *)
NoWriters ==
  [pc |-> "none", awriter |-> "none", statsWriter |-> "none", names |-> {},
   rc |-> 0]

RouterIdle ==
  [pc |-> "idle", last_config_attempt |-> 0, config_failures |-> 0,
   success |-> 0, attempts |-> 0, everSucceeded |-> FALSE,
   before |-> [config |-> [w \in Proxies |-> Null],
               stats |-> ConfigStats([w \in Proxies |-> ZeroStats]),
               failures |-> 0]]

InitRouter ==
  /\ now = 0
  /\ router = RouterIdle
  /\ input = 1
  /\ asynclogDisable = FALSE
  /\ writerThreads = [w \in Proxies |-> NoWriters]

Init ==
  /\ sync \in BOOLEAN
  /\ maxInflight \in 0..MaxInflightOpt
  /\ nullReadTraps = TRUE
  /\ nullReadResult = "ok"
  /\ InitPolicy
  /\ InitRequests
  /\ InitConfigured
  /\ InitRouter

(* routing answers every request and posts no async log write *)
Next ==
  \/ \E r \in SpecRequests, kind \in ReqKinds : NewRequest(r, 0, kind)
  \/ \E r \in SpecRequests : DispatchRequest(r)
  \/ \E r \in SpecRequests : FiberStart(r)
  \/ \E r \in SpecRequests : FiberFinish(r, "ok", 0)
  \/ \E r \in SpecRequests : SubmitterDecref(r)

Spec == Init /\ [][Next]_vars

(* ---- LiveSpec: the same loop with admission control on, and fair: the    *)
(* fiber scheduler runs a task that is ready, routing returns, and the      *)
(* submitter lets go of its reference. The last two are weak fairness of    *)
(* FiberFinish and SubmitterDecref, stated through their enabling           *)
(* conditions (either step disables itself) ---- *)
LiveInit == Init /\ maxInflight > 0

Fairness ==
  \A r \in Requests :
    /\ WF_vars(FiberStart(r))
    /\ []<>(task[r].phase # "routing")
    /\ []<>(~(task[r].submitter /\ task[r].phase \notin {"none", "new"}))

LiveSpec == LiveInit /\ [][Next]_vars /\ Fairness

(* ---- QueueSpec: a worker limited to MaxInflightOpt requests in flight   *)
(* serving up to MaxQueueReq requests, updates and version requests ---- *)
QueueKinds == {k \in ReqKinds : k.op \in {"set", "version"}}

QueueInit == Init /\ maxInflight = MaxInflightOpt /\ ~sync

QueueNext ==
  \/ \E r \in Requests, kind \in QueueKinds : NewRequest(r, 0, kind)
  \/ \E r \in Requests : DispatchRequest(r)
  \/ \E r \in Requests : FiberStart(r)
  \/ \E r \in Requests : FiberFinish(r, "ok", 0)
  \/ \E r \in Requests : SubmitterDecref(r)

QueueSpec == QueueInit /\ [][QueueNext]_vars

(* ---- LifeSpec: the whole life of a request, with routing errors, async   *)
(* log writes and the async writer's callbacks ---- *)
LifeRequests == 1..MaxLifeReq

LifeNext ==
  \/ \E r \in LifeRequests, kind \in ReqKinds : NewRequest(r, 0, kind)
  \/ \E r \in LifeRequests : DispatchRequest(r)
  \/ \E r \in LifeRequests : FiberStart(r)
  \/ \E r \in LifeRequests, o \in FiberOutcomes, d \in 0..MaxDelay :
       FiberFinish(r, o, d)
  \/ \E r \in LifeRequests : SubmitterDecref(r)
  \/ \E r \in LifeRequests : OnContinueReplyError(r)
  \/ \E r \in LifeRequests : WriterContinueSendReply(r)

LifeSpec == Init /\ [][LifeNext]_vars

(* ---- LegacySpec: a worker serving requests of every op, with and       *)
(* without the internal prefix on the key ---- *)
LegacyKinds ==
  ReqKinds \cup { [op |-> "set", prefixed |-> TRUE],
                  [op |-> "get_service_info", prefixed |-> FALSE] }

LegacyNext ==
  \/ \E r \in LifeRequests, kind \in LegacyKinds : NewRequest(r, 0, kind)
  \/ \E r \in LifeRequests : DispatchRequest(r)
  \/ \E r \in LifeRequests : FiberStart(r)
  \/ \E r \in LifeRequests, o \in FiberOutcomes : FiberFinish(r, o, 0)
  \/ \E r \in LifeRequests : SubmitterDecref(r)

LegacySpec == Init /\ [][LegacyNext]_vars

(* ---- ReplySpec: the reply latch of one request under every order of      *)
(* calls: sendReply, continueSendReply, async log writes posted for the     *)
(* request and their failure reports ---- *)
MaxCalls == 2

CallSendReply(r, result) ==
  /\ ~aborted
  /\ Live(r)
  /\ Commit(sendReply(Cur, r, [op |-> preq[r].op, result |-> result,
                                value |-> ""]))
  /\ UNCHANGED <<polVars, optVars, cfgVars, rtrVars>>

CallContinueSendReply(r) ==
  /\ ~aborted
  /\ Live(r)
  /\ calls[r].enqueueReply < MaxCalls
  /\ stats[preq[r].proxy].request_replied < MaxCalls
  /\ Commit(continueSendReply(Cur, r))
  /\ UNCHANGED <<polVars, optVars, cfgVars, rtrVars>>

(* an async log write is posted for the request *)
LogWrite(r) ==
  /\ ~aborted
  /\ Live(r)
  /\ preq[r].delay_reply < MaxDelay
  /\ Commit(writelog_entry_new(Cur, r, 1))
  /\ UNCHANGED <<polVars, optVars, cfgVars, rtrVars>>

(* the request has been constructed; its owner keeps its reference *)
ReplyInit ==
  /\ sync \in BOOLEAN
  /\ maxInflight = 0
  /\ nullReadTraps \in BOOLEAN
  /\ nullReadResult \in (IF nullReadTraps THEN {"ok"} ELSE RouteOutcomes)
  /\ InitPolicy
  /\ InitConfigured
  /\ InitRouter
  /\ numRequestsProcessing = [w \in Proxies |-> 0]
  /\ waitingRequests = [w \in Proxies |-> <<>>]
  /\ order = [process |-> <<>>, queue |-> <<>>]
  /\ aborted = FALSE
  /\ calls = [r \in Requests |-> NoCalls]
  /\ \E kind \in ReqKinds :
       LET s == proxy_request_t(
                  [preq |-> [r \in Requests |-> NoReq],
                   task |-> [r \in Requests |-> NoTask],
                   stats |-> [w \in Proxies |-> ZeroStats]], 1, 0, kind)
       IN preq = s.preq /\ task = s.task /\ stats = s.stats

ReplyNext ==
  \/ \E result \in RouteOutcomes : CallSendReply(1, result)
  \/ CallContinueSendReply(1)
  \/ LogWrite(1)
  \/ OnContinueReplyError(1)

ReplySpec == ReplyInit /\ [][ReplyNext]_vars


(* ---- the configuration thread: router_configure(router, input) ---- *)
RECURSIVE ReleaseAll(_, _)
(* ~vector<shared_ptr<ProxyConfig>> *)
ReleaseAll(s, cs) ==
  IF cs = <<>> THEN s ELSE ReleaseAll(SharedPtrRelease(s, Head(cs)), Tail(cs))

(* return 0 from router_configure: newConfigs goes out of scope *)
ConfigureFail(c) ==
  [c EXCEPT !.pc = "idle", !.result = 0, !.newConfigs = <<>>, !.i = 0]

(* entry of router_configure: ProxyConfigBuilder is constructed from the    *)
(* input, which throws on a bad configuration                               *)
ConfigureEntry(builderOk) ==
  LET c == [cfg EXCEPT !.runs = @ + 1, !.before = config_, !.i = 0,
                       !.newConfigs = <<>>, !.result = -1, !.old = Null,
                       !.built = <<>>,
                       !.markedBefore = destinationsMarked,
                       !.statsBefore = ConfigStats(stats)]
  IN IF builderOk THEN [c EXCEPT !.pc = "build"] ELSE ConfigureFail(c)

(* a caller invokes router_configure(router, input) *)
ConfigureBegin(builderOk) ==
  /\ ~aborted
  /\ cfg.pc = "idle"
  /\ cfg.runs < MaxConfigures
  /\ cfg' = ConfigureEntry(builderOk)
  /\ UNCHANGED <<reqVars, polVars, optVars, rtrVars, config_, configLock,
                 oldConfigQueue, reader, destinationsMarked>>

(* proxy->destinationMap->markAllAsUnused() *)
markAllAsUnused(m, w) == [m EXCEPT ![w] = Null]

(* builder.buildConfig(proxy) returning snapshot c: the destinations the    *)
(* new configuration reuses are marked used again                           *)
buildConfigMarks(m, w, c) == [m EXCEPT ![w] = c]

(* a build loop that swaps each worker's snapshot in as soon as it is built *)
ConfigureBuild_swapEach(buildOk) ==
  /\ ~aborted
  /\ cfg.pc = "build"
  /\ LET i == cfg.i
     IN IF defaultRouteEmpty[i] \/ ~buildOk
        THEN /\ cfg' = ConfigureFail(cfg)
             /\ Commit(ReleaseAll(Cur, cfg.newConfigs))
             /\ config_' = config_
             /\ destinationsMarked' =
                  IF defaultRouteEmpty[i] THEN destinationsMarked
                  ELSE markAllAsUnused(destinationsMarked, i)
        ELSE /\ cfg' = [cfg EXCEPT
                          !.newConfigs = Append(@, cfg.nextSnap),
                          !.nextSnap = @ + 1,
                          !.i = IF i + 1 = NumProxies THEN 0 ELSE i + 1,
                          !.pc = IF i + 1 = NumProxies THEN "swap" ELSE "build"]
             /\ Commit([Cur EXCEPT !.useCount[cfg.nextSnap] = 2])
             /\ config_' = [config_ EXCEPT ![i] = cfg.nextSnap]
             /\ destinationsMarked' =
                  buildConfigMarks(markAllAsUnused(destinationsMarked, i),
                                   i, cfg.nextSnap)
  /\ UNCHANGED <<polVars, optVars, rtrVars, configLock, oldConfigQueue, reader>>

(* one iteration of the build loop, for worker cfg.i *)
ConfigureBuild(buildOk) ==
  /\ ~aborted
  /\ cfg.pc = "build"
  /\ LET i == cfg.i
     IN IF defaultRouteEmpty[i] \/ ~buildOk
        THEN /\ cfg' = ConfigureFail(cfg)
             /\ Commit(ReleaseAll(Cur, cfg.newConfigs))
             /\ destinationsMarked' =
                  IF defaultRouteEmpty[i] THEN destinationsMarked
                  ELSE markAllAsUnused(destinationsMarked, i)
        ELSE /\ cfg' = [cfg EXCEPT
                          !.newConfigs = Append(@, cfg.nextSnap),
                          !.nextSnap = @ + 1,
                          !.i = IF i + 1 = NumProxies THEN 0 ELSE i + 1,
                          !.pc = IF i + 1 = NumProxies THEN "swap" ELSE "build"]
             /\ Commit([Cur EXCEPT !.useCount[cfg.nextSnap] = 1])
             /\ destinationsMarked' =
                  buildConfigMarks(markAllAsUnused(destinationsMarked, i),
                                   i, cfg.nextSnap)
  /\ UNCHANGED <<polVars, optVars, rtrVars, config_, configLock, oldConfigQueue, reader>>

(* proxy_t::swapConfig up to `auto old = std::move(config_)`: the write     *)
(* lock is taken and config_ is left empty                                  *)
swapConfigMoveOut(w) ==
  /\ WriteLockFree(w)
  /\ configLock' = [configLock EXCEPT ![w].writer = TRUE]
  /\ config_' = [config_ EXCEPT ![w] = Null]

(* proxy_t::swapConfig from `config_ = std::move(newConfig)`: the new       *)
(* pointer is stored and the write lock released                            *)
swapConfigMoveIn(w, newConfig) ==
  /\ configLock' = [configLock EXCEPT ![w].writer = FALSE]
  /\ config_' = [config_ EXCEPT ![w] = newConfig]

(* proxy_config_swap(worker cfg.i, newConfigs[cfg.i]), first half *)
SwapBegin ==
  /\ ~aborted
  /\ cfg.pc = "swap"
  /\ swapConfigMoveOut(cfg.i)
  /\ cfg' = [cfg EXCEPT !.pc = "swapping", !.old = config_[cfg.i]]
  /\ LET s1 == SharedPtrCopy(Cur, cfg.newConfigs[cfg.i + 1])
         s2 == stat_set_uint64(s1, cfg.i, "num_servers", 0)
     IN Commit(stat_incr(s2, cfg.i, "num_servers", input))
  /\ UNCHANGED <<polVars, optVars, rtrVars, oldConfigQueue, reader, destinationsMarked>>

(* proxy_config_swap, second half: the old snapshot is posted to the        *)
(* worker's request queue (async mode) or dropped here (sync mode); after   *)
(* the last worker router_configure returns 1                               *)
SwapEnd ==
  /\ ~aborted
  /\ cfg.pc = "swapping"
  /\ LET i == cfg.i
         last == i + 1 = NumProxies
         s1 == IF cfg.old # Null /\ sync THEN SharedPtrRelease(Cur, cfg.old)
               ELSE Cur
         s2 == stat_set_uint64(s1, i, "config_last_success", now)
         s3 == IF last THEN ReleaseAll(s2, cfg.newConfigs) ELSE s2
     IN /\ swapConfigMoveIn(i, cfg.newConfigs[i + 1])
        /\ oldConfigQueue' =
             IF cfg.old # Null /\ ~sync
             THEN [oldConfigQueue EXCEPT ![i] = Append(@, cfg.old)]
             ELSE oldConfigQueue
        /\ cfg' = [cfg EXCEPT
                     !.installed[i] = TRUE, !.old = Null,
                     !.current[i] = cfg.newConfigs[i + 1],
                     !.built = IF last THEN cfg.newConfigs ELSE @,
                     !.i = IF last THEN 0 ELSE i + 1,
                     !.pc = IF last THEN "idle" ELSE "swap",
                     !.result = IF last THEN 1 ELSE @,
                     !.newConfigs = IF last THEN <<>> ELSE @]
        /\ Commit(s3)
  /\ UNCHANGED <<polVars, optVars, rtrVars, reader, destinationsMarked>>

(* the worker's loop takes an old_config entry off its request queue and    *)
(* drops the snapshot                                                       *)
OldConfigRetire(w) ==
  /\ ~aborted
  /\ oldConfigQueue[w] # <<>>
  /\ oldConfigQueue' = [oldConfigQueue EXCEPT ![w] = Tail(@)]
  /\ Commit(SharedPtrRelease(Cur, Head(oldConfigQueue[w])))
  /\ UNCHANGED <<polVars, optVars, rtrVars, config_, configLock, cfg, reader,
                 destinationsMarked>>

(* ---- another thread calling proxy_t::getConfig ---- *)
ReaderLock(w) ==
  /\ ~aborted
  /\ reader.pc = "idle"
  /\ ReadLockFree(w)
  /\ configLock' = [configLock EXCEPT ![w].readers = @ + 1]
  /\ reader' = [reader EXCEPT !.pc = "locked", !.w = w,
                              !.after = cfg.installed[w]]
  /\ UNCHANGED <<reqVars, polVars, optVars, rtrVars, config_, oldConfigQueue, cfg,
                 destinationsMarked>>

(* `return config_` and the lock_guard's release; the caller drops the copy *)
ReaderReturn ==
  /\ ~aborted
  /\ reader.pc = "locked"
  /\ configLock' = [configLock EXCEPT ![reader.w].readers = @ - 1]
  /\ reader' = [reader EXCEPT !.pc = "idle", !.result = config_[reader.w]]
  /\ UNCHANGED <<reqVars, polVars, optVars, rtrVars, config_, oldConfigQueue, cfg,
                 destinationsMarked>>

(* ---- ConfigSpec: the router from construction on ---- *)
CfgRequests == 1..MaxCfgReq

ConfigInit ==
  /\ sync \in BOOLEAN
  /\ maxInflight = 0
  /\ nullReadTraps = TRUE
  /\ nullReadResult = "ok"
  /\ InitPolicy
  /\ InitRequests
  /\ defaultRouteEmpty \in [Proxies -> BOOLEAN]
  /\ config_ = [w \in Proxies |-> Null]
  /\ configLock = [w \in Proxies |-> [writer |-> FALSE, readers |-> 0]]
  /\ useCount = [c \in Snapshots |-> 0]
  /\ retired = [c \in Snapshots |-> FALSE]
  /\ oldConfigQueue = [w \in Proxies |-> <<>>]
  /\ cfg = CfgIdle
  /\ reader = ReaderIdle
  /\ destinationsMarked = [w \in Proxies |-> Null]
  /\ InitRouter

ConfigNext ==
  \/ \E ok \in BOOLEAN : ConfigureBegin(ok)
  \/ \E ok \in BOOLEAN : ConfigureBuild(ok)
  \/ SwapBegin
  \/ SwapEnd
  \/ \E w \in Proxies : OldConfigRetire(w)
  \/ \E w \in Proxies : ReaderLock(w)
  \/ ReaderReturn
  \/ \E r \in CfgRequests, w \in Proxies, kind \in ReqKinds : NewRequest(r, w, kind)
  \/ \E r \in CfgRequests : DispatchRequest(r)
  \/ \E r \in CfgRequests : FiberStart(r)
  \/ \E r \in CfgRequests, o \in RouteOutcomes : FiberFinish(r, o, 0)
  \/ \E r \in CfgRequests : SubmitterDecref(r)

ConfigSpec == ConfigInit /\ [][ConfigNext]_vars

(* ---- StatsSpec: a worker limited to one request in flight serving       *)
(* requests while the router is configured and reconfigured with texts of   *)
(* different sizes ---- *)

(* a caller invokes router_configure(router, input) with the given text *)
RouterConfigure(text, builderOk) ==
  /\ ~aborted
  /\ cfg.pc = "idle"
  /\ cfg.runs < MaxConfigures
  /\ cfg' = ConfigureEntry(builderOk)
  /\ input' = text
  /\ UNCHANGED <<reqVars, polVars, optVars, now, router, asynclogDisable,
                 writerThreads, config_, configLock, oldConfigQueue, reader,
                 destinationsMarked>>

StatsInit ==
  /\ sync = FALSE
  /\ maxInflight = 1
  /\ nullReadTraps = TRUE
  /\ nullReadResult = "ok"
  /\ InitPolicy
  /\ InitRequests
  /\ defaultRouteEmpty = [w \in Proxies |-> FALSE]
  /\ config_ = [w \in Proxies |-> Null]
  /\ configLock = [w \in Proxies |-> [writer |-> FALSE, readers |-> 0]]
  /\ useCount = [c \in Snapshots |-> 0]
  /\ retired = [c \in Snapshots |-> FALSE]
  /\ oldConfigQueue = [w \in Proxies |-> <<>>]
  /\ cfg = CfgIdle
  /\ reader = ReaderIdle
  /\ destinationsMarked = [w \in Proxies |-> Null]
  /\ InitRouter

StatsNext ==
  \/ \E text \in 1..MaxServers, ok \in BOOLEAN : RouterConfigure(text, ok)
  \/ \E ok \in BOOLEAN : ConfigureBuild(ok)
  \/ SwapBegin
  \/ SwapEnd
  \/ \E w \in Proxies : OldConfigRetire(w)
  \/ \E r \in LifeRequests, kind \in QueueKinds : NewRequest(r, 0, kind)
  \/ \E r \in LifeRequests : DispatchRequest(r)
  \/ \E r \in LifeRequests : FiberStart(r)
  \/ \E r \in LifeRequests, o \in RouteOutcomes : FiberFinish(r, o, 0)
  \/ \E r \in LifeRequests : SubmitterDecref(r)

StatsSpec == StatsInit /\ [][StatsNext]_vars

(* ---- PolicySpec: a shadowing policy built from JSON and updated from     *)
(* runtime variables ---- *)
PolicyInit ==
  /\ sync = FALSE
  /\ maxInflight = 0
  /\ nullReadTraps = TRUE
  /\ nullReadResult = "ok"
  /\ InitPolicy
  /\ InitRequests
  /\ InitConfigured
  /\ InitRouter

PolicyNext ==
  \/ \E ir \in IndexPairs \cup {Shaped(k) : k \in JsonShapes},
        kf \in FractionPairs \cup {Shaped(k) : k \in JsonShapes},
        irv \in {"", "ir"}, kfv \in {"", "kf"} :
       PolicyConstruct([index_range |-> ir, key_fraction_range |-> kf,
                        index_range_rv |-> irv,
                        key_fraction_range_rv |-> kfv])
  \/ \E ir \in IndexPairs \cup {Shaped(k) : k \in RtShapes},
        kf \in FractionPairs \cup {Shaped(k) : k \in RtShapes} :
       UpdateBegin([ir |-> ir, kf |-> kf])
  \/ UpdateIndex
  \/ UpdateKeyFraction
  \/ UpdatePublish

PolicySpec == PolicyInit /\ [][PolicyNext]_vars

(* ---- proxy_t::startAwriterThreads and stopAwriterThreads ---- *)

(* spawn_thread for the asynclog writer, async logging enabled *)
SpawnAwriter(w, ok) ==
  /\ writerThreads[w].pc = "none"
  /\ ~asynclogDisable
  /\ writerThreads' =
       [writerThreads EXCEPT
          ![w] = IF ok THEN [@ EXCEPT !.awriter = "running", !.pc = "awriter"]
                 ELSE [@ EXCEPT !.rc = -1, !.pc = "returned"]]
  /\ UNCHANGED <<reqVars, polVars, optVars, cfgVars, now, router, input,
                 asynclogDisable>>

(* folly::setThreadName(awriterThreadHandle_, "mcrtr-awriter") *)
NameAwriter(w) ==
  /\ writerThreads[w].pc = "awriter"
  /\ writerThreads' =
       [writerThreads EXCEPT ![w].names = @ \cup {"mcrtr-awriter"},
                             ![w].pc = "stats"]
  /\ UNCHANGED <<reqVars, polVars, optVars, cfgVars, now, router, input,
                 asynclogDisable>>

(* spawn_thread for the stats log writer *)
SpawnStatsWriter(w, ok) ==
  /\ writerThreads[w].pc = IF asynclogDisable THEN "none" ELSE "stats"
  /\ writerThreads' =
       [writerThreads EXCEPT
          ![w] = IF ok
                 THEN [@ EXCEPT !.statsWriter = "running", !.pc = "statsw"]
                 ELSE [@ EXCEPT !.rc = -1, !.pc = "returned"]]
  /\ UNCHANGED <<reqVars, polVars, optVars, cfgVars, now, router, input,
                 asynclogDisable>>

(* folly::setThreadName(statsLogWriterThreadHandle_, "mcrtr-statsw") and    *)
(* return 0                                                                 *)
NameStatsWriter(w) ==
  /\ writerThreads[w].pc = "statsw"
  /\ writerThreads' =
       [writerThreads EXCEPT ![w].names = @ \cup {"mcrtr-statsw"},
                             ![w].rc = 0, ![w].pc = "returned"]
  /\ UNCHANGED <<reqVars, polVars, optVars, cfgVars, now, router, input,
                 asynclogDisable>>

(* proxy_t::stopAwriterThreads in the process that spawned the threads:     *)
(* each thread whose handle is set is stopped and joined                    *)
StopAwriterThreads(w) ==
  /\ writerThreads[w].pc \in {"none", "returned"}
  /\ writerThreads' =
       [writerThreads EXCEPT
          ![w].awriter = IF @ = "running" THEN "joined" ELSE @,
          ![w].statsWriter = IF @ = "running" THEN "joined" ELSE @,
          ![w].pc = "stopped"]
  /\ UNCHANGED <<reqVars, polVars, optVars, cfgVars, now, router, input,
                 asynclogDisable>>

(* ---- StartSpec: the workers' writer threads are started, and stopped at  *)
(* teardown ---- *)
StartInit ==
  /\ sync = FALSE
  /\ maxInflight = 0
  /\ nullReadTraps = TRUE
  /\ nullReadResult = "ok"
  /\ InitPolicy
  /\ InitRequests
  /\ InitConfigured
  /\ now = 0
  /\ router = RouterIdle
  /\ input = 1
  /\ asynclogDisable \in BOOLEAN
  /\ writerThreads = [w \in Proxies |-> NoWriters]

StartNext ==
  \/ \E w \in Proxies, ok \in BOOLEAN : SpawnAwriter(w, ok)
  \/ \E w \in Proxies : NameAwriter(w)
  \/ \E w \in Proxies, ok \in BOOLEAN : SpawnStatsWriter(w, ok)
  \/ \E w \in Proxies : NameStatsWriter(w)
  \/ \E w \in Proxies : StopAwriterThreads(w)

StartSpec == StartInit /\ [][StartNext]_vars

(* ---- the file-driven router_configure(router) ---- *)

(* time passes *)
Tick ==
  /\ now < MaxClock
  /\ now' = now + 1
  /\ UNCHANGED <<reqVars, polVars, optVars, cfgVars, router, input, asynclogDisable,
                 writerThreads>>

(* entry: config_reconfig_lock is taken for writing and the attempt is      *)
(* timestamped                                                              *)
FileConfigureBegin ==
  /\ ~aborted
  /\ router.pc = "idle"
  /\ cfg.pc = "idle"
  /\ router.attempts < MaxAttempts
  /\ router' = [router EXCEPT
                  !.pc = "fetch", !.attempts = @ + 1,
                  !.last_config_attempt = now,
                  !.before = [config |-> config_,
                              stats |-> ConfigStats(stats),
                              failures |-> router.config_failures]]
  /\ UNCHANGED <<reqVars, polVars, optVars, cfgVars, now, input, asynclogDisable,
                 writerThreads>>

(* the end of the locked block without the failure count *)
FileConfigureReturn_noCount(success) ==
  [router EXCEPT
     !.pc = "idle", !.success = success,
     !.everSucceeded = @ \/ success = 1]

(* the end of the locked block with the attempt timestamped there *)
FileConfigureReturn_markAfter(success) ==
  [router EXCEPT
     !.pc = "idle", !.success = success,
     !.last_config_attempt = now,
     !.everSucceeded = @ \/ success = 1,
     !.config_failures = IF success = 0 THEN @ + 1 ELSE @]

(* the end of the locked block: config_failures++ unless success *)
FileConfigureReturn(success) ==
  [router EXCEPT
     !.pc = "idle", !.success = success,
     !.everSucceeded = @ \/ success = 1,
     !.config_failures = IF success = 0 THEN @ + 1 ELSE @]

(* configApi->getConfigFile(config): the text is read, or it is not and the *)
(* attempt ends                                                             *)
GetConfigFile(ok, text) ==
  /\ ~aborted
  /\ router.pc = "fetch"
  /\ IF ok
     THEN /\ input' = text
          /\ router' = [router EXCEPT !.pc = "call"]
     ELSE /\ input' = input
          /\ router' = FileConfigureReturn(0)
  /\ UNCHANGED <<reqVars, polVars, optVars, cfgVars, now, asynclogDisable,
                 writerThreads>>

(* router_configure_from_string(router, config) enters                      *)
(* router_configure(router, input)                                          *)
router_configure_from_string(builderOk) ==
  /\ ~aborted
  /\ router.pc = "call"
  /\ cfg.pc = "idle"
  /\ cfg.runs < MaxConfigures
  /\ cfg' = ConfigureEntry(builderOk)
  /\ router' = [router EXCEPT !.pc = "configuring"]
  /\ UNCHANGED <<reqVars, polVars, optVars, now, input, asynclogDisable, writerThreads,
                 config_, configLock, oldConfigQueue, reader,
                 destinationsMarked>>

(* router_configure(router, input) has returned cfg.result *)
FileConfigureEnd ==
  /\ ~aborted
  /\ router.pc = "configuring"
  /\ cfg.pc = "idle"
  /\ router' = FileConfigureReturn(cfg.result)
  /\ UNCHANGED <<reqVars, polVars, optVars, cfgVars, now, input, asynclogDisable,
                 writerThreads>>

(* ---- FileSpec: the router reconfigured from its file, time passing ---- *)
FileNext ==
  \/ Tick
  \/ FileConfigureBegin
  \/ \E ok \in BOOLEAN, text \in 1..MaxServers : GetConfigFile(ok, text)
  \/ \E ok \in BOOLEAN : router_configure_from_string(ok)
  \/ \E ok \in BOOLEAN : ConfigureBuild(ok)
  \/ SwapBegin
  \/ SwapEnd
  \/ FileConfigureEnd
  \/ \E w \in Proxies : OldConfigRetire(w)

FileSpec == ConfigInit /\ [][FileNext]_vars


(* ======================= the claims ======================= *)
IsBypass(r) == preq[r].op \in BypassOps
Processed(r) == \E i \in 1..Len(order.process) : order.process[i] = r
Queued(r) == \E i \in 1..Len(order.queue) : order.queue[i] = r
InWaiting(r) == \E i \in 1..Len(waitingRequests[preq[r].proxy]) :
                  waitingRequests[preq[r].proxy][i] = r
Pos(seq, r) == CHOOSE i \in 1..Len(seq) : seq[i] = r
(* requests in flight on worker w: processRequest called, not destroyed *)
InFlight(w) == {r \in Requests : Live(r) /\ preq[r].processing /\ preq[r].proxy = w}
(* this step is dispatchRequest(r) *)
DispatchStep(r) == task[r].phase = "new" /\ task'[r].phase # "new"

(* C1 as stated: with maxInflight = M > 0, numRequestsProcessing <= M in    *)
(* every reachable state, whatever the ops of the requests                  *)
C1_Original ==
  \A w \in Proxies :
    maxInflight > 0 => numRequestsProcessing[w] <= maxInflight

(* C1 amended: with maxInflight = M > 0, numRequestsProcessing exceeds M at *)
(* most by the number of bypass requests (stats, version, get_service_info) *)
(* in flight: the requests in flight that are subject to admission number   *)
(* at most M                                                                *)
C1_InflightBound ==
  \A w \in Proxies :
    maxInflight > 0 =>
      /\ numRequestsProcessing[w]
           - Cardinality({r \in InFlight(w) : IsBypass(r)}) <= maxInflight
      /\ Cardinality({r \in InFlight(w) : ~IsBypass(r)}) <= maxInflight

(* C1 witness: the limit is reached by requests subject to admission and a  *)
(* bypass request is in flight on top of them                               *)
C1_Witness ==
  /\ maxInflight > 0
  /\ Cardinality({r \in InFlight(0) : ~IsBypass(r)}) = maxInflight
  /\ numRequestsProcessing[0] > maxInflight

(* C2: dispatchRequest of a stats, version or get_service_info request      *)
(* calls processRequest on it at once and leaves waitingRequests and the    *)
(* waiting stat as they were; no such request is ever in waitingRequests    *)
C2_BypassNeverQueued ==
  [][ /\ \A r \in Requests :
           (DispatchStep(r) /\ IsBypass(r)) =>
              /\ waitingRequests' = waitingRequests
              /\ stats'[preq[r].proxy].proxy_reqs_waiting
                   = stats[preq[r].proxy].proxy_reqs_waiting
              /\ order'.process = Append(order.process, r)
              /\ order'.queue = order.queue
      /\ \A r \in Requests : IsBypass(r)' => ~InWaiting(r)' /\ ~Queued(r)'
    ]_vars

(* C2 witness: maxInflight = 1, a set in flight and another waiting, and a  *)
(* stats request dispatched after them is being processed                   *)
C2_Witness ==
  /\ maxInflight = 1
  /\ waitingRequests[0] # <<>>
  /\ \E r \in Requests :
       /\ Live(r) /\ preq[r].op = "stats" /\ preq[r].processing
       /\ \A i \in 1..Len(waitingRequests[0]) : waitingRequests[0][i] < r
       /\ \E q \in InFlight(0) : preq[q].op = "set" /\ q < r

(* C3: requests leave waitingRequests in the order they entered it: if A    *)
(* was appended before B and processRequest(B) has happened, then           *)
(* processRequest(A) happened before it                                     *)
C3_Fifo ==
  \A i, j \in 1..Len(order.queue) :
    (i < j /\ Processed(order.queue[j])) =>
       /\ Processed(order.queue[i])
       /\ Pos(order.process, order.queue[i]) < Pos(order.process, order.queue[j])

(* C3 witness: two requests were queued and both have been processed *)
C3_Witness ==
  /\ Len(order.queue) >= 2
  /\ Processed(order.queue[1]) /\ Processed(order.queue[2])

(* C4: with maxInflight > 0 a request subject to admission that is          *)
(* dispatched while waitingRequests is non-empty is appended to it, and     *)
(* requests subject to admission are processed in the order of their        *)
(* dispatchRequest calls (request ids are in dispatch order)                *)
C4_NoOvertaking ==
  [][ maxInflight > 0 =>
      /\ \A r \in Requests :
           (DispatchStep(r) /\ ~IsBypass(r)
              /\ waitingRequests[preq[r].proxy] # <<>>) =>
             /\ waitingRequests'[preq[r].proxy]
                  = Append(waitingRequests[preq[r].proxy], r)
             /\ order'.process = order.process
      /\ \A i, j \in 1..Len(order'.process) :
           (i < j /\ preq'[order'.process[i]].op \notin BypassOps
                  /\ preq'[order'.process[j]].op \notin BypassOps)
              => order'.process[i] < order'.process[j]
    ]_vars

(* C4 witness: a request was dispatched behind a waiting one although the   *)
(* limit was not the reason alone, and all three were processed in order    *)
C4_Witness ==
  /\ maxInflight > 0
  /\ Len(order.queue) >= 2
  /\ Len(order.process) = MaxReq
  /\ \A r \in Requests : ~IsBypass(r)


C6_ExactlyOnce ==
  \A r \in Requests :
    /\ calls[r].enqueueReply <= 1
    /\ (preq[r].state = "dead" /\ Processed(r)) => calls[r].enqueueReply = 1

(* the half of C6 the code keeps: enqueueReply is never invoked twice *)
AtMostOneEnqueueReply ==
  \A r \in Requests : calls[r].enqueueReply <= 1

(* C7: the reply slot is written at most once and replyState only moves     *)
(* NO_REPLY -> REPLY_DELAYED -> REPLIED or NO_REPLY -> REPLIED, under every *)
(* sequence of sendReply, continueSendReply and                             *)
(* proxy_on_continue_reply_error calls: no step takes it backwards or out   *)
(* of REPLIED, and a reply once stored is never replaced                    *)
ReplyRank(st) ==
  CASE st = "NO_REPLY" -> 0 [] st = "REPLY_DELAYED" -> 1 [] st = "REPLIED" -> 2

C7_ReplyLatch ==
  [][ \A r \in Requests :
        (Live(r) /\ Live(r)') =>
          /\ ReplyRank(preq'[r].reply_state) >= ReplyRank(preq[r].reply_state)
          /\ preq[r].reply # NoReply => preq'[r].reply = preq[r].reply
          /\ calls'[r].replyWrites <= 1
    ]_vars

(* C7 witness: a reply stored once, delayed by a log write and released by  *)
(* the write's failure report                                               *)
C7_Witness ==
  \E r \in Requests :
    /\ Live(r) /\ ~aborted /\ ~sync
    /\ preq[r].reply_state = "REPLIED" /\ preq[r].reply # NoReply
    /\ calls[r].replyWrites = 1 /\ calls[r].enqueueReply = 1
    /\ preq[r].delay_reply = 1 /\ task[r].entries = 0

(* C8: a routed request takes the worker's snapshot once, when its fiber    *)
(* task starts, and keeps that snapshot until its request context is        *)
(* destroyed, whatever swapConfig does meanwhile; a snapshot pinned by a    *)
(* request context is not retired; and a request whose routing starts       *)
(* after a swap gets the snapshot that swap installed                       *)
C8_SnapshotPinned ==
  [][ \A r \in Requests :
        /\ (task[r].ctx # Null /\ task'[r].ctx # Null)
              => task'[r].ctx = task[r].ctx
        /\ (task[r].ctx = Null /\ task'[r].ctx # Null)
              => /\ task[r].phase = "pending" /\ task'[r].phase = "routing"
                 /\ task'[r].ctx = cfg.current[preq[r].proxy]
        /\ task'[r].ctx # Null
              => ~retired'[task'[r].ctx] /\ useCount'[task'[r].ctx] >= 1
    ]_vars

(* C8 witness: a request is being routed on a snapshot that its worker has  *)
(* replaced since, and the request context is all that keeps it             *)
C8_Witness ==
  \E r \in Requests :
    /\ task[r].phase = "routing" /\ task[r].ctx # Null
    /\ config_[preq[r].proxy] # Null
    /\ config_[preq[r].proxy] # task[r].ctx
    /\ useCount[task[r].ctx] = 1 /\ ~retired[task[r].ctx]

(* C9: getConfig and the pointer exchange of swapConfig exclude each other  *)
(* under configLock_, and a getConfig begun after the worker's first        *)
(* configuration returns a snapshot, never null: the one installed last,    *)
(* which is the old one if a swap is waiting and the new one after it       *)
C9_GetConfigAtomic ==
  [][ /\ \A w \in Proxies :
           ~(configLock'[w].writer /\ configLock'[w].readers > 0)
      /\ (reader.pc = "locked" /\ reader'.pc = "idle" /\ reader.after)
           => /\ reader'.result # Null
              /\ reader'.result = cfg.current[reader.w]
              /\ ~retired[reader'.result]
    ]_vars

(* C9 witness: after the first configuration a reader is inside getConfig   *)
(* of a worker whose swap is waiting for the lock                           *)
C9_Witness ==
  /\ reader.pc = "locked" /\ reader.after
  /\ cfg.pc = "swap" /\ cfg.i = reader.w
  /\ config_[reader.w] # Null

(* C10: router_configure is all-or-nothing: while it builds, and after it   *)
(* returned 0, every worker holds the snapshot it held at entry; a build    *)
(* that throws or an empty default route makes it return 0; when it         *)
(* returned 1 every worker holds the snapshot built for it; the swaps go in *)
(* worker order                                                             *)
C10_AllOrNothing ==
  /\ cfg.pc = "build" => config_ = cfg.before
  /\ (cfg.pc = "idle" /\ cfg.result = 0) => config_ = cfg.before
  /\ (cfg.pc = "idle" /\ cfg.result # -1
        /\ \E w \in Proxies : defaultRouteEmpty[w]) => cfg.result = 0
  /\ (cfg.pc = "idle" /\ cfg.result = 1) =>
        \A w \in Proxies :
          config_[w] = cfg.built[w + 1] /\ config_[w] # cfg.before[w]
  /\ cfg.pc \in {"swap", "swapping"} =>
        \A w \in Proxies :
          /\ w < cfg.i => config_[w] = cfg.newConfigs[w + 1]
          /\ w > cfg.i => config_[w] = cfg.before[w]
          /\ (w = cfg.i /\ cfg.pc = "swap") => config_[w] = cfg.before[w]

(* C10 witness: a reconfiguration failed after it had built a snapshot: the *)
(* snapshot is gone and every worker still holds its earlier one            *)
C10_Witness ==
  /\ cfg.pc = "idle" /\ cfg.result = 0
  /\ \A w \in Proxies : config_[w] # Null /\ config_[w] = cfg.before[w]
  /\ \E c \in Snapshots : retired[c] /\ c >= cfg.nextSnap - NumProxies

(* C11: a router_configure that fails leaves every worker as it was: its    *)
(* snapshot, the stats the configuration writes and the destination map's   *)
(* used/unused marking are what they were at entry, also for the workers    *)
(* the build loop had handled before the failure                            *)
C11_NoSideEffects ==
  (cfg.pc = "idle" /\ cfg.result = 0) =>
     /\ config_ = cfg.before
     /\ ConfigStats(stats) = cfg.statsBefore
     /\ destinationsMarked = cfg.markedBefore

(* the part of C11 the code keeps: snapshots and stats *)
FailedConfigureKeepsSnapshotAndStats ==
  (cfg.pc = "idle" /\ cfg.result = 0) =>
     /\ config_ = cfg.before
     /\ ConfigStats(stats) = cfg.statsBefore


(* the references held on request r: its submitter's, its fiber task's      *)
(* until the cleanup function has run, one per writelog entry, and the      *)
(* waiting queue's                                                          *)
Holders(r) ==
  (IF task[r].submitter THEN 1 ELSE 0)
  + (IF task[r].phase \in {"pending", "routing"} THEN 1 ELSE 0)
  + task[r].entries
  + (IF InWaiting(r) THEN 1 ELSE 0)

(* C12: when the root route handle throws while routing request r, nothing  *)
(* escapes the task: nothing aborts, the reply slot is written once, through *)
(* sendReply, with result local_error and value "error routing <key>:       *)
(* <what>", the task's reference is released, the remaining references are  *)
(* exactly those of the remaining holders, and once they are gone the       *)
(* request is destroyed and no longer counted in numRequestsProcessing      *)
C12_RouteException ==
  \A r \in Requests :
    calls[r].caught =>
      /\ ~aborted
      /\ calls[r].replyWrites = 1
      /\ calls[r].reply =
           [op |-> preq[r].op, result |-> "local_error",
            value |-> "error routing " \o orig_req_key(r) \o ": upstream down"]
      /\ task[r].phase \in {"done", "none"}
      /\ preq[r].refcount = Holders(r)
      /\ Live(r) <=> Holders(r) > 0
      /\ Live(r) => /\ preq[r].reply = calls[r].reply
                    /\ preq[r].reply_state # "NO_REPLY"
      /\ ~Live(r) => /\ preq[r].state = "dead"
                     /\ calls[r].reqComplete = 1
      /\ numRequestsProcessing[preq[r].proxy]
           = Cardinality(InFlight(preq[r].proxy))

(* a request whose routing threw has been destroyed after its reply was     *)
(* handed to the front-end, while another request is still being served     *)
C12_Witness ==
  \E r, q \in Requests :
    /\ calls[r].caught
    /\ preq[r].state = "dead"
    /\ calls[r].enqueueReply = 1
    /\ calls[r].reply.value = "error routing k1: upstream down"
    /\ numRequestsProcessing[0] = 1
    /\ Live(q)

(* the requests handed to dispatchRequest so far, and those destroyed *)
Dispatched == {r \in Requests : task[r].phase \notin {"none", "new"}
                                  \/ preq[r].state = "dead"}
Destroyed == {r \in Requests : preq[r].state = "dead"}

(* C13: proxy_reqs_waiting_stat is the length of waitingRequests_; and with *)
(* maxInflight = 2 and four set requests dispatched in order, the stat      *)
(* reads 0, 0, 1, 2 after the dispatch of R1, R2, R3, R4 with none          *)
(* destroyed (R1, R2 processed, R3, R4 queued), 1 once R1 is destroyed (R3  *)
(* processed, R4 queued) and 0 once R2 is destroyed too (R4 processed)      *)
C13_WaitingStat ==
  /\ \A w \in Proxies : stats[w].proxy_reqs_waiting = Len(waitingRequests[w])
  /\ (/\ maxInflight = 2
      /\ \A r \in 1..4 : preq[r].state # "none" => preq[r].op = "set")
     =>
      /\ \A k \in 1..4 :
           (Dispatched = 1..k /\ Destroyed = {}) =>
              /\ stats[0].proxy_reqs_waiting = <<0, 0, 1, 2>>[k]
              /\ order.process = SubSeq(<<1, 2>>, 1, IF k < 2 THEN k ELSE 2)
              /\ waitingRequests[0] = SubSeq(<<3, 4>>, 1, k - 2)
      /\ (Dispatched = 1..4 /\ Destroyed = {1}) =>
              /\ stats[0].proxy_reqs_waiting = 1
              /\ order.process = <<1, 2, 3>>
              /\ waitingRequests[0] = <<4>>
      /\ (Dispatched = 1..4 /\ Destroyed = {1, 2}) =>
              /\ stats[0].proxy_reqs_waiting = 0
              /\ order.process = <<1, 2, 3, 4>>
              /\ waitingRequests[0] = <<>>

(* the end of the scenario: R3 and R4 were queued in that order, R1 and R2  *)
(* are destroyed, all four were processed and nothing waits                 *)
C13_Witness ==
  /\ maxInflight = 2
  /\ \A r \in 1..4 : preq[r].op = "set"
  /\ order.queue = <<3, 4>>
  /\ order.process = <<1, 2, 3, 4>>
  /\ Destroyed = {1, 2}
  /\ stats[0].proxy_reqs_waiting = 0

(* how often processRequest was called on r *)
TimesProcessed(r) ==
  Cardinality({i \in 1..Len(order.process) : order.process[i] = r})

(* C14: numRequestsProcessing_ of a worker is the number of its live        *)
(* requests with processing set; a request is processed at most once; and   *)
(* a step changes the counter by the requests it processes less the         *)
(* processed requests it destroys (an unprocessed one leaves it alone)      *)
C14_ProcessingAccounting ==
  [][ \A w \in Proxies :
        /\ numRequestsProcessing'[w] = Cardinality(InFlight(w))'
        /\ \A r \in Requests : TimesProcessed(r)' <= 1
        /\ numRequestsProcessing'[w] - numRequestsProcessing[w]
             = Cardinality({r \in Requests :
                              /\ preq'[r].proxy = w
                              /\ TimesProcessed(r)' = TimesProcessed(r) + 1})
               - Cardinality({r \in Requests :
                                /\ preq'[r].proxy = w
                                /\ preq[r].state # "dead"
                                /\ preq'[r].state = "dead"
                                /\ TimesProcessed(r)' = 1})
        /\ \A r \in Requests :
             (Live(r) /\ ~preq[r].processing /\ ~Live(r)' /\ ~Processed(r)')
               => numRequestsProcessing'[w] = numRequestsProcessing[w]
    ]_vars

(* one request in flight, one destroyed after being processed, one queued   *)
(* and not yet processed                                                    *)
C14_Witness ==
  \E r, q, p \in Requests :
    /\ Live(r) /\ preq[r].processing
    /\ preq[q].state = "dead" /\ Processed(q)
    /\ InWaiting(p) /\ ~preq[p].processing
    /\ numRequestsProcessing[0] = 1

(* how often r appears in its worker's waiting queue *)
TimesWaiting(r) ==
  Cardinality({i \in 1..Len(waitingRequests[preq[r].proxy]) :
                 waitingRequests[preq[r].proxy][i] = r})

(* C15: a request is in waitingRequests_ exactly when dispatchRequest found *)
(* it rate-limited and processRequest has not been called on it yet; while  *)
(* it is there its processing flag is false, it is there once, it is alive, *)
(* and it holds the queue's reference on top of its submitter's             *)
C15_WaitingMembership ==
  \A r \in Requests :
    /\ InWaiting(r) <=> (Queued(r) /\ ~Processed(r))
    /\ InWaiting(r) =>
         /\ ~preq[r].processing
         /\ TimesWaiting(r) = 1
         /\ Live(r)
         /\ preq[r].refcount = 1 + (IF task[r].submitter THEN 1 ELSE 0)

(* a queued request whose submitter has let go: the queue's reference alone *)
(* keeps it alive                                                           *)
C15_Witness ==
  \E r \in Requests :
    /\ InWaiting(r)
    /\ ~task[r].submitter
    /\ preq[r].refcount = 1
    /\ Live(r)

(* this step ran continueSendReply on r and r outlives it *)
ContinueSendReplyStep(r) ==
  /\ Live(r) /\ preq[r].reply_state # "REPLIED"
  /\ Live(r)' /\ preq'[r].reply_state = "REPLIED"

(* this step dropped the last reference of r, whose reply had been released *)
(* by an earlier step                                                       *)
FinalDecrefStep(r) ==
  /\ Live(r) /\ preq[r].reply_state = "REPLIED"
  /\ preq'[r].state = "dead"

(* C16 as stated: continueSendReply sets REPLIED and invokes the reply      *)
(* callback there if the worker is in sync mode; in async mode the callback *)
(* is left to the final decref                                              *)
C16_Original ==
  [][ \A r \in Requests :
        /\ ContinueSendReplyStep(r) =>
             calls'[r].enqueueReply
               = calls[r].enqueueReply + (IF sync THEN 1 ELSE 0)
        /\ FinalDecrefStep(r) =>
             calls'[r].enqueueReply
               = calls[r].enqueueReply + (IF sync THEN 0 ELSE 1)
    ]_vars

(* C16, amended: continueSendReply sets REPLIED and invokes the reply       *)
(* callback there if the worker is not in sync mode; in sync mode it does   *)
(* not, and the final decref invokes it for a request in state REPLIED      *)
C16_ReplyCallback ==
  [][ \A r \in Requests :
        /\ ContinueSendReplyStep(r) =>
             calls'[r].enqueueReply
               = calls[r].enqueueReply + (IF sync THEN 0 ELSE 1)
        /\ FinalDecrefStep(r) =>
             calls'[r].enqueueReply
               = calls[r].enqueueReply + (IF sync THEN 1 ELSE 0)
    ]_vars

(* a sync-mode request whose reply was released and whose callback has not  *)
(* run yet, and a sync-mode request destroyed after its callback ran        *)
C16_Witness ==
  /\ sync
  /\ \E r, q \in Requests :
       /\ Live(r) /\ preq[r].reply_state = "REPLIED"
       /\ calls[r].enqueueReply = 0
       /\ preq[q].state = "dead" /\ calls[q].enqueueReply = 1

(* C17: after a file-driven router_configure that failed, config_failures   *)
(* is one more than before it, no worker's config_last_success_stat has     *)
(* changed and every worker holds the snapshot it held; after one that      *)
(* succeeded, config_failures is what it was                                *)
C17_FileConfigureFailure ==
  (router.pc = "idle" /\ router.attempts > 0) =>
     IF router.success = 0
     THEN /\ router.config_failures = router.before.failures + 1
          /\ \A w \in Proxies :
               /\ stats[w].config_last_success
                    = router.before.stats[w].config_last_success
               /\ config_[w] = router.before.config[w]
     ELSE router.config_failures = router.before.failures

(* a configured router, later than its last success, after a failed fetch   *)
(* or a failed configuration from the fetched text                          *)
C17_Witness ==
  /\ router.pc = "idle"
  /\ router.success = 0
  /\ router.everSucceeded
  /\ router.config_failures = 2
  /\ cfg.runs = 2 /\ cfg.result = 0
  /\ \A w \in Proxies : config_[w] # Null /\ stats[w].config_last_success < now

StartFailed(w) ==
  writerThreads[w].pc = "returned" /\ writerThreads[w].rc = -1

(* C19: when startAwriterThreads returns an error because a spawn failed,   *)
(* no writer thread of that worker is running                               *)
C19_NotPartiallyStarted ==
  \A w \in Proxies :
    StartFailed(w) =>
      /\ writerThreads[w].awriter # "running"
      /\ writerThreads[w].statsWriter # "running"

(* what the code keeps of C19: a failed start leaves no stats writer, and   *)
(* no writer at all when the first spawn was the one that failed            *)
FailedStartLeavesNoStatsWriter ==
  \A w \in Proxies :
    StartFailed(w) =>
      /\ writerThreads[w].statsWriter = "none"
      /\ (asynclogDisable => writerThreads[w].awriter = "none")

(* the stats the core increments with stat_incr *)
IncrementedStats ==
  {"proxy_reqs_waiting", "proxy_reqs_processing",
   "proxy_request_num_outstanding", "num_servers",
   "cmd_stats", "cmd_stats_count", "cmd_get", "cmd_get_count",
   "cmd_set", "cmd_set_count", "cmd_other", "cmd_other_count",
   "request_sent", "request_sent_count",
   "request_replied", "request_replied_count",
   "request_error", "request_error_count",
   "request_success", "request_success_count"}

(* the stats the core also decrements or resets *)
Gauges ==
  {"proxy_reqs_processing", "proxy_request_num_outstanding",
   "proxy_reqs_waiting", "num_servers"}

(* C20 as stated: every stat the core increments, other than               *)
(* proxy_reqs_processing and proxy_request_num_outstanding, never decreases *)
C20_Original ==
  [][ \A w \in Proxies :
        \A name \in IncrementedStats
                      \ {"proxy_reqs_processing",
                         "proxy_request_num_outstanding"} :
          stats'[w][name] >= stats[w][name] ]_vars

(* C20, amended: every stat the core increments and never decrements or    *)
(* resets (the cmd_*, request_sent, request_replied, request_error and      *)
(* request_success stats and their _count twins) never decreases           *)
C20_CountersMonotone ==
  [][ \A w \in Proxies :
        \A name \in IncrementedStats \ Gauges :
          stats'[w][name] >= stats[w][name] ]_vars

(* both requests were processed, one after waiting, both were answered, one *)
(* with an error, and the router was reconfigured with a smaller text       *)
C20_Witness ==
  /\ stats[0].request_sent = 2
  /\ stats[0].request_replied = 2
  /\ stats[0].request_error = 1
  /\ stats[0].cmd_set = 2
  /\ Len(order.queue) = 1
  /\ stats[0].proxy_reqs_waiting = 0
  /\ cfg.runs = 2 /\ cfg.result = 1
  /\ stats[0].num_servers = 1

(* this step ends a run of the callback by an exception *)
UpdateThrown == updater.pc \in {"index", "fraction"} /\ updater'.pc = "idle"

(* this step ends a run of the callback by publishing *)
UpdatePublished == updater.pc = "commit" /\ updater'.pc = "idle"

(* the new variables carry two ints s <= e for the bound index range *)
ValidIndexPair(val) == val.kind = "pair" /\ val.a <= val.b

(* C21: for a policy bound to an index-range variable, an update carrying   *)
(* two ints s <= e is not rejected for its index range and, when published, *)
(* makes getData() return startIndex = s and endIndex = e; an update that   *)
(* fails validation publishes nothing: getData() returns the Data from      *)
(* before the update                                                        *)
C21_HotUpdate ==
  [][ LET val == updater.newVars.ir
          bound == updater.before.index_range_rv # ""
      IN /\ (UpdatePublished /\ bound /\ ValidIndexPair(val)) =>
              /\ policy'.data_.start_index = val.a
              /\ policy'.data_.end_index = val.b
         /\ (updater.pc = "index" /\ UpdateThrown /\ bound) =>
              ~ValidIndexPair(val)
         /\ (UpdatePublished /\ bound) =>
              ~(val.kind = "pair" /\ val.a > val.b)
         /\ UpdateThrown => policy'.data_ = updater.before
    ]_vars

(* what the code keeps of C21: a pair of non-negative ints s <= e is        *)
(* published as it is, and an update that throws publishes nothing, a valid *)
(* key-fraction range of the same update included                           *)
NonNegativeIndexPairPublished ==
  [][ LET val == updater.newVars.ir
          bound == updater.before.index_range_rv # ""
      IN /\ (UpdatePublished /\ bound /\ ValidIndexPair(val) /\ val.a >= 0) =>
              /\ policy'.data_.start_index = val.a
              /\ policy'.data_.end_index = val.b
         /\ (updater.pc = "index" /\ UpdateThrown /\ bound) =>
              ~(ValidIndexPair(val) /\ val.a >= 0)
         /\ (UpdatePublished /\ bound) =>
              ~(val.kind = "pair" /\ val.a > val.b /\ val.b >= 0)
         /\ UpdateThrown => policy'.data_ = updater.before
    ]_vars

(* a fully valid Data *)
ValidData(d) ==
  /\ 0 <= d.start_index /\ d.start_index <= d.end_index
  /\ d.end_index < SizeModulus
  /\ 0 <= d.start_key_fraction
  /\ d.start_key_fraction <= d.end_key_fraction
  /\ d.end_key_fraction <= FractionOne

(* the Data an update with the given variables leaves when all of it is     *)
(* applied to Data d                                                        *)
Applied(d, newVars) ==
  LET d1 == IF d.index_range_rv # "" /\ newVars.ir.kind = "pair"
            THEN [d EXCEPT !.start_index = asSizeT(newVars.ir.a),
                           !.end_index = asSizeT(newVars.ir.b)]
            ELSE d
  IN IF d.key_fraction_range_rv # "" /\ newVars.kf.kind = "pair"
     THEN [d1 EXCEPT !.start_key_fraction = newVars.kf.a,
                     !.end_key_fraction = newVars.kf.b]
     ELSE d1

(* C22: the Data getData() returns is fully valid in every state, and it    *)
(* changes only by the publication of one whole update: both ranges of the  *)
(* update applied to the Data from before it                                *)
C22_DataValid ==
  /\ [](policy.pc = "live" => ValidData(policy.data_))
  /\ [][ policy.pc = "live" /\ policy'.data_ # policy.data_ =>
           /\ UpdatePublished
           /\ policy'.data_ = Applied(updater.before, updater.newVars)
       ]_vars

(* a policy whose ranges both came from an update, the index range from a   *)
(* pair with a negative end                                                 *)
C22_Witness ==
  /\ policy.pc = "live"
  /\ updater.pc = "idle"
  /\ policy.data_.start_index = 1
  /\ policy.data_.end_index = SizeModulus - 1
  /\ policy.data_.start_key_fraction = FractionOne
  /\ policy.data_.end_key_fraction = FractionOne
(* C23: a get whose key starts with "__mcrouter__." is routed as           *)
(* get_service_info with the prefix stripped from the key: it is never put  *)
(* on the waiting queue and never handed to a fiber, and it is answered     *)
(* inside dispatchRequest; the reply handed to the client has op get. Every *)
(* other request keeps its op and its key, and every reply carries the op   *)
(* of the message the client sent                                           *)
LegacyGet(r) ==
  /\ preq[r].req.op = "get"
  /\ strncmp_equal(preq[r].req.key, kInternalGetPrefix)

C23_LegacyServiceInfo ==
  \A r \in Requests :
    /\ preq[r].state = "live" /\ LegacyGet(r) =>
         /\ preq[r].op = "get_service_info"
         /\ kInternalGetPrefix \o preq[r].key = preq[r].req.key
         /\ preq[r].key = <<orig_req_key(r)>>
    /\ preq[r].state = "live" /\ ~LegacyGet(r) =>
         /\ preq[r].op = preq[r].req.op
         /\ preq[r].key = preq[r].req.key
    /\ preq[r].state # "none" /\ LegacyGet(r) =>
         /\ \A i \in 1..Len(order.queue) : order.queue[i] # r
         /\ task[r].phase \notin {"pending", "routing", "done"}
         /\ r \in Dispatched => calls[r].replyWrites = 1
    /\ calls[r].replyWrites > 0 => calls[r].reply.op = preq[r].req.op

(* a prefixed get was answered with op get while the worker was at its      *)
(* limit of requests in flight                                              *)
C23_Witness ==
  /\ maxInflight = 1
  /\ LegacyGet(2) /\ calls[2].enqueueReply = 1 /\ calls[2].reply.op = "get"
  /\ preq[1].op = "set" /\ task[1].phase = "routing"
(* C24: a request handed to the fiber scheduler is not destroyed while its *)
(* task is pending or running. The task holds exactly one reference from    *)
(* its submission until its cleanup function: the reference count of a live *)
(* request is the number of its holders and is positive, so the assertions  *)
(* of incref and decref never fail, also after the submitter let go of its  *)
(* reference while routing was suspended; and the step that ends the task   *)
(* calls sendReply first and then drops that one reference                  *)
TaskEnds(r) == task[r].phase = "routing" /\ task'[r].phase # "routing"

C24_TaskHoldsReference ==
  /\ [](/\ ~aborted
        /\ \A r \in Requests :
             /\ task[r].phase \in {"pending", "routing"} =>
                  Live(r) /\ preq[r].refcount >= 1
             /\ Live(r) => preq[r].refcount = Holders(r) /\ Holders(r) > 0
             /\ preq[r].state = "dead" => Holders(r) = 0)
  /\ [][ \A r \in Requests :
          TaskEnds(r) =>
            /\ calls'[r].replyWrites = calls[r].replyWrites + 1
            /\ Live(r)' =>
                 /\ preq'[r].reply # NoReply
                 /\ preq'[r].refcount - task'[r].entries
                      = preq[r].refcount - task[r].entries - 1
            /\ ~Live(r)' => calls'[r].reqComplete = 1 ]_vars

(* routing is suspended and the task's reference is the only one left: the  *)
(* submitter has dropped its own                                            *)
C24_Witness ==
  \E r \in Requests :
    /\ task[r].phase = "routing" /\ ~task[r].submitter
    /\ Live(r) /\ preq[r].refcount = 1
(* C25: the order of the final decref. reqComplete_ is called at most once *)
(* per request, in the call that destroys it and in no other: a step that   *)
(* leaves the request alive calls no reqComplete_ and, on a sync-mode       *)
(* worker, no enqueueReply_, and on an async worker enqueueReply_ only in   *)
(* continueSendReply, as the reply state becomes REPLIED. The final call    *)
(* does, in this order: enqueueReply_ if and only if the worker is in sync  *)
(* mode and the reply state is REPLIED, reqComplete_, and then the          *)
(* destructor's decrement of numRequestsProcessing_ and pump() for a        *)
(* request that was processed, and the delete                               *)
TeardownOf(r) ==
  (IF sync /\ calls[r].teardown.reply_state = "REPLIED"
   THEN <<"enqueueReply">> ELSE <<>>)
  \o <<"reqComplete">>
  \o (IF Processed(r) THEN <<"numRequestsProcessing", "pump">> ELSE <<>>)
  \o <<"delete">>

C25_TeardownOrder ==
  /\ [](\A r \in Requests :
          /\ calls[r].reqComplete <= 1
          /\ calls[r].reqComplete = 1 <=> preq[r].state = "dead"
          /\ preq[r].state # "dead" =>
               calls[r].teardown = NoCalls.teardown
          /\ preq[r].state = "dead" =>
               calls[r].teardown.events = TeardownOf(r))
  /\ [][ \A r \in Requests :
          Live(r) /\ Live(r)' =>
            /\ calls'[r].reqComplete = calls[r].reqComplete
            /\ sync => calls'[r].enqueueReply = calls[r].enqueueReply
            /\ calls'[r].enqueueReply # calls[r].enqueueReply =>
                 /\ preq[r].reply_state # "REPLIED"
                 /\ preq'[r].reply_state = "REPLIED" ]_vars

(* on a sync-mode worker one request was destroyed with its reply flushed   *)
(* in the final decref, and another with its reply still delayed, which     *)
(* was not flushed                                                          *)
C25_Witness ==
  \E r, q \in Requests :
    /\ sync
    /\ calls[r].teardown.events
         = <<"enqueueReply", "reqComplete", "numRequestsProcessing", "pump",
             "delete">>
    /\ calls[q].teardown.reply_state = "REPLY_DELAYED"
    /\ calls[q].teardown.events
         = <<"reqComplete", "numRequestsProcessing", "pump", "delete">>
(* C26: a call of proxy_on_continue_reply_error on an entry of request r   *)
(* frees the entry, whatever the state of r. It releases the reply, through *)
(* continueSendReply (reply state REPLIED, the reply counted as sent and,   *)
(* on an async worker, handed to enqueueReply_), exactly when r is in       *)
(* REPLY_DELAYED with delay_reply = 1. In every other case the reply state, *)
(* the reply slot, delay_reply and the reply statistics of r stay as they   *)
(* were and neither enqueueReply_ nor reqComplete_ is called               *)
ReplyErrorStep(r) == Live(r) /\ task'[r].entries < task[r].entries

C27_WorkConservation ==
  \A w \in Proxies :
    (maxInflight > 0 /\ waitingRequests[w] # <<>>) =>
       numRequestsProcessing[w] >= maxInflight

(* a destruction has moved the first waiter into the free slot and the      *)
(* next one is still waiting, with the worker at its limit again            *)
C27_Witness ==
  /\ maxInflight > 0
  /\ waitingRequests[0] # <<>>
  /\ numRequestsProcessing[0] = maxInflight
  /\ \E q, r \in Requests :
       /\ preq[q].state = "dead" /\ ~IsBypass(q)
       /\ Queued(r) /\ Live(r) /\ preq[r].processing
====
